---- MODULE Spec2Model ----
(***************************************************************************)
(* A model of the Hugging Face MCP gateway server: the Gradio discovery    *)
(* subsystem with its two-level cache (gradio-cache.ts,                    *)
(* gradio-discovery.ts), the per-call upstream session (gradio-tool-       *)
(* caller.ts, gradio-result-processor.ts) and the tool-selection strategy  *)
(* (tool-selection-strategy.ts), the proxy server factory (mcp-proxy.ts),  *)
(* the server factory (mcp-server.ts) and the transports with their        *)
(* authentication gate, keep-alive and temporary logging                   *)
(* (base-transport.ts and the three transports).                           *)
(*                                                                         *)
(* Time is the value of Date.now() in milliseconds.  A space is named by   *)
(* its "owner/name" string; an ETag of 0 stands for "no ETag".             *)
(***************************************************************************)
EXTENDS Integers, Sequences, FiniteSets, TLC

\* ---------------------------------------------------------------- bounds
\* how many times the clock advances
MaxTicks == 2
\* how many discoveries (getGradioSpaces calls) are started
MaxDiscoveries == 2

\* the spaces the callers ask for
Spaces == {"a/x", "b/y"}

\* ------------------------------------------------------ program constants
\* CACHE_CONFIG (defaults, in milliseconds)
SPACE_METADATA_TTL == 300000
SCHEMA_TTL == 300000
DISCOVERY_CONCURRENCY == 10

\* The clock advances in steps of half a TTL.
TickMs == SPACE_METADATA_TTL \div 2

VARIABLES
    now,                \* Date.now()
    spaceMetadataCache, \* the SpaceMetadataCache singleton: [cache, stats]
    schemaCache,        \* the SchemaCache singleton: [cache, stats]
    disc,               \* the getGradioSpaces call in progress (or the last one)
    nDisc,              \* discoveries started
    call,               \* the tool handler invocations: call id -> its state
    gradioMetrics,      \* the gradioMetrics singleton: [success, failure]
    env,                \* process.env: [SEARCH_ENABLES_FETCH]
    selection,          \* the last selectTools call: its context and its result
    naming,             \* the createGradioToolName call in progress: its arguments and its result
    proxy,              \* the proxy server factory call in progress: its inputs and the server it builds
    post,               \* the post-processing of one upstream result: its options, the content received and the result returned
    transport,          \* the transport object: its kind, analyticsMode, isShuttingDown, its two interval timers and the keys of its session map
    sessionObjects,     \* the session objects ever created: session id -> its state
    conn,               \* the connection attempt in progress: where its handler is
    lastRequest,        \* the request answered last and the response it got
    cleanupCall,        \* the cleanup() call: where it is and whose cleanup it awaits
    shutdownCalled,     \* whether shutdown() has been called
    auth,               \* the request at the auth gate of a transport
    mcpServer,          \* the server the factory returned, with its tools
    preset,             \* a request with preset headers: the headers and the servers it gets with and without them
    tempLog,            \* the temporary logging of the stateless transport: its maximum, its counters and the last entry written
    keepAlive,          \* a stateful transport with one session: its configuration, its clock, the session's activity and pings
    pinger,             \* the ping keep-alive of a stateful transport: its timer, its session ids, pingsInFlight, the pings not settled and the ping counters
    relay,              \* the progress relay of one callGradioTool call: the caller's token, the notifications received from upstream and those sent to the caller
    outbound,           \* one outbound call (metadata fetch, schema fetch or upstream tool call): its kind, the remote's behaviour, where it is, its abort timer and the time since it began
    forward             \* the requests sent to the spaces and the open connection

discVars == <<now, spaceMetadataCache, schemaCache, disc, nDisc>>

callVars == <<call, gradioMetrics>>

selVars == <<env, selection>>

namingVars == <<naming>>

proxyVars == <<proxy>>

postVars == <<post>>

transportVars == <<transport, sessionObjects, conn, lastRequest, cleanupCall, shutdownCalled>>

authVars == <<auth>>

serverVars == <<mcpServer>>

presetVars == <<preset>>

tempLogVars == <<tempLog>>

keepAliveVars == <<keepAlive>>

pingVars == <<pinger>>

relayVars == <<relay>>

outboundVars == <<outbound>>

forwardVars == <<forward>>

vars == <<discVars, callVars, selVars, namingVars, proxyVars, postVars, transportVars, authVars, serverVars, presetVars, tempLogVars, keepAliveVars, pingVars, relayVars, outboundVars, forwardVars>>

\* the variables the actions of one part leave alone
discOthers == <<callVars, selVars, namingVars, proxyVars, postVars, transportVars, authVars, serverVars, presetVars, tempLogVars, keepAliveVars, pingVars, relayVars, outboundVars, forwardVars>>
callOthers == <<discVars, selVars, namingVars, proxyVars, postVars, transportVars, authVars, serverVars, presetVars, tempLogVars, keepAliveVars, pingVars, relayVars, outboundVars, forwardVars>>
selOthers == <<discVars, callVars, namingVars, proxyVars, postVars, transportVars, authVars, serverVars, presetVars, tempLogVars, keepAliveVars, pingVars, relayVars, outboundVars, forwardVars>>
namingOthers == <<discVars, callVars, selVars, proxyVars, postVars, transportVars, authVars, serverVars, presetVars, tempLogVars, keepAliveVars, pingVars, relayVars, outboundVars, forwardVars>>
proxyOthers == <<discVars, callVars, selVars, namingVars, postVars, transportVars, authVars, serverVars, presetVars, tempLogVars, keepAliveVars, pingVars, relayVars, outboundVars, forwardVars>>
postOthers == <<discVars, callVars, selVars, namingVars, proxyVars, transportVars, authVars, serverVars, presetVars, tempLogVars, keepAliveVars, pingVars, relayVars, outboundVars, forwardVars>>
transportOthers == <<discVars, callVars, selVars, namingVars, proxyVars, postVars, authVars, serverVars, presetVars, tempLogVars, keepAliveVars, pingVars, relayVars, outboundVars, forwardVars>>
authOthers == <<discVars, callVars, selVars, namingVars, proxyVars, postVars, transportVars, serverVars, presetVars, tempLogVars, keepAliveVars, pingVars, relayVars, outboundVars, forwardVars>>
serverOthers == <<discVars, callVars, selVars, namingVars, proxyVars, postVars, transportVars, authVars, presetVars, tempLogVars, keepAliveVars, pingVars, relayVars, outboundVars, forwardVars>>
presetOthers == <<discVars, callVars, selVars, namingVars, proxyVars, postVars, transportVars, authVars, serverVars, tempLogVars, keepAliveVars, pingVars, relayVars, outboundVars, forwardVars>>
tempLogOthers == <<discVars, callVars, selVars, namingVars, proxyVars, postVars, transportVars, authVars, serverVars, presetVars, keepAliveVars, pingVars, relayVars, outboundVars, forwardVars>>
keepAliveOthers == <<discVars, callVars, selVars, namingVars, proxyVars, postVars, transportVars, authVars, serverVars, presetVars, tempLogVars, pingVars, relayVars, outboundVars, forwardVars>>
pingOthers == <<discVars, callVars, selVars, namingVars, proxyVars, postVars, transportVars, authVars, serverVars, presetVars, tempLogVars, keepAliveVars, relayVars, outboundVars, forwardVars>>
relayOthers == <<discVars, callVars, selVars, namingVars, proxyVars, postVars, transportVars, authVars, serverVars, presetVars, tempLogVars, keepAliveVars, pingVars, outboundVars, forwardVars>>
outboundOthers == <<discVars, callVars, selVars, namingVars, proxyVars, postVars, transportVars, authVars, serverVars, presetVars, tempLogVars, keepAliveVars, pingVars, relayVars, forwardVars>>
forwardOthers == <<discVars, callVars, selVars, namingVars, proxyVars, postVars, transportVars, authVars, serverVars, presetVars, tempLogVars, keepAliveVars, pingVars, relayVars, outboundVars>>

\* ------------------------------------------------------------- sequences
RECURSIVE Dedup(_)
\* [...new Set(seq)]: first occurrences, in insertion order
Dedup(seq) ==
    IF seq = <<>> THEN <<>>
    ELSE LET front == Dedup(SubSeq(seq, 1, Len(seq) - 1))
             last == seq[Len(seq)]
         IN IF \E k \in 1..Len(front) : front[k] = last
            THEN front ELSE Append(front, last)

Range(seq) == { seq[k] : k \in 1..Len(seq) }

Min(a, b) == IF a < b THEN a ELSE b

\* ---------------------------------------------------------- gradio-cache
\* null for a CachedSpaceMetadata
NoMetadata == [name |-> "", private |-> FALSE, sdk |-> "", etag |-> 0, fetchedAt |-> 0]
IsNull(m) == m.name = ""

NoSchema == [tools |-> <<>>, fetchedAt |-> 0, forPrivate |-> FALSE]

EmptyMetadataMap == [s \in {} |-> NoMetadata]
EmptySchemaMap == [s \in {} |-> NoSchema]

NewSpaceMetadataCache ==
    [cache |-> EmptyMetadataMap,
     stats |-> [hits |-> 0, misses |-> 0, etagRevalidations |-> 0]]

NewSchemaCache ==
    [cache |-> EmptySchemaMap, stats |-> [hits |-> 0, misses |-> 0]]

\* Mutant of MetadataIsValid: an entry is still served at age TTL.
MetadataIsValid_inclusive(entry, t) == (t - entry.fetchedAt) <= SPACE_METADATA_TTL

\* isValid of SpaceMetadataCache.get: age counted from fetchedAt
MetadataIsValid(entry, t) == (t - entry.fetchedAt) < SPACE_METADATA_TTL

\* SpaceMetadataCache.get that does not count its hits
SpaceMetadataCache_get_hitsUncounted(c, spaceName, t) ==
    IF spaceName \notin DOMAIN c.cache
    THEN [value |-> NoMetadata, self |-> [c EXCEPT !.stats.misses = @ + 1]]
    ELSE IF ~MetadataIsValid(c.cache[spaceName], t)
    THEN [value |-> NoMetadata, self |-> [c EXCEPT !.stats.misses = @ + 1]]
    ELSE [value |-> c.cache[spaceName], self |-> c]

\* SpaceMetadataCache.get: the value (NoMetadata for null) and the cache after
SpaceMetadataCache_get(c, spaceName, t) ==
    IF spaceName \notin DOMAIN c.cache
    THEN [value |-> NoMetadata, self |-> [c EXCEPT !.stats.misses = @ + 1]]
    ELSE IF ~MetadataIsValid(c.cache[spaceName], t)
    THEN [value |-> NoMetadata, self |-> [c EXCEPT !.stats.misses = @ + 1]]
    ELSE [value |-> c.cache[spaceName], self |-> [c EXCEPT !.stats.hits = @ + 1]]

getForRevalidation(c, spaceName) ==
    IF spaceName \in DOMAIN c.cache THEN c.cache[spaceName] ELSE NoMetadata

SpaceMetadataCache_set(c, spaceName, metadata) ==
    [c EXCEPT !.cache = (spaceName :> metadata) @@ c.cache]

\* Mutant of updateTimestamp: the revalidation is counted but the entry keeps
\* its old fetchedAt.
updateTimestamp_keepsTime(c, spaceName, t) ==
    IF spaceName \in DOMAIN c.cache
    THEN [c EXCEPT !.stats.etagRevalidations = @ + 1]
    ELSE c

updateTimestamp(c, spaceName, t) ==
    IF spaceName \in DOMAIN c.cache
    THEN [c EXCEPT !.cache[spaceName].fetchedAt = t,
                   !.stats.etagRevalidations = @ + 1]
    ELSE c

\* clear that empties the map and keeps the counters
SpaceMetadataCache_clear_keepsStats(c) == [c EXCEPT !.cache = EmptyMetadataMap]

\* SpaceMetadataCache.clear
SpaceMetadataCache_clear(c) == NewSpaceMetadataCache

\* isValid of SchemaCache.get
SchemaIsValid(entry, t) == (t - entry.fetchedAt) < SCHEMA_TTL

\* SchemaCache.get: found is FALSE for null
SchemaCache_get(c, spaceName, t) ==
    IF spaceName \notin DOMAIN c.cache
    THEN [found |-> FALSE, value |-> NoSchema,
          self |-> [c EXCEPT !.stats.misses = @ + 1]]
    ELSE IF ~SchemaIsValid(c.cache[spaceName], t)
    THEN [found |-> FALSE, value |-> NoSchema,
          self |-> [c EXCEPT !.stats.misses = @ + 1]]
    ELSE [found |-> TRUE, value |-> c.cache[spaceName],
          self |-> [c EXCEPT !.stats.hits = @ + 1]]

SchemaCache_set(c, spaceName, schema) ==
    [c EXCEPT !.cache = (spaceName :> schema) @@ c.cache]

SchemaCache_clear(c) == NewSchemaCache

getCacheStats ==
    [metadataHits |-> spaceMetadataCache.stats.hits,
     metadataMisses |-> spaceMetadataCache.stats.misses,
     metadataEtagRevalidations |-> spaceMetadataCache.stats.etagRevalidations,
     schemaHits |-> schemaCache.stats.hits,
     schemaMisses |-> schemaCache.stats.misses,
     metadataCacheSize |-> Cardinality(DOMAIN spaceMetadataCache.cache),
     schemaCacheSize |-> Cardinality(DOMAIN schemaCache.cache)]

\* ------------------------------------------------------------- the Hub
\* What the Hub may hold for a space at the moment of a request: its owner can
\* make it private or public and change its sdk at any time.
HubContents == [private : BOOLEAN, sdk : {"gradio", "static"}]

\* The ETag the Hub sends with a space's metadata: a digest of the content.
HubEtag(content) ==
    (IF content.private THEN 2 ELSE 0) + (IF content.sdk = "static" THEN 1 ELSE 0) + 1

\* The tool list a space's /gradio_api/mcp/schema endpoint serves.
HubTools(s) == << [space |-> s, name |-> "predict"] >>

\* What GET /api/spaces/{name} may answer to a request carrying If-None-Match
\* ifNoneMatch (0: none): 304 when the content's ETag is the one sent, else 200
\* with the content (with or without a subdomain), or a failure: status 500, or
\* status 0 for a network error or the timeout's abort.
HubMetadataResponses(ifNoneMatch) ==
    LET body(st, content, sub) ==
            [status |-> st, private |-> content.private, sdk |-> content.sdk,
             etag |-> HubEtag(content), subdomain |-> sub]
        none == [private |-> FALSE, sdk |-> "gradio"]
    IN {body(0, none, TRUE), body(500, none, TRUE)}
       \cup { IF HubEtag(content) = ifNoneMatch
              THEN body(304, content, TRUE) ELSE body(200, content, TRUE) :
              content \in HubContents }
       \cup { body(200, none, FALSE) }

\* What GET {subdomain}.hf.space/gradio_api/mcp/schema may answer: the tools,
\* or a failure (network error, timeout, non-2xx, a schema the parser rejects).
HubSchemaResponses(s) ==
    {[ok |-> TRUE, tools |-> HubTools(s)], [ok |-> FALSE, tools |-> <<>>]}

\* ------------------------------------------------------ gradio-discovery
\* The fields of a CachedSpaceMetadata that the discovery reads after the fetch.
Fields(m) == [name |-> m.name, private |-> m.private, sdk |-> m.sdk]

NoFields == Fields(NoMetadata)

\* One fetchSpaceMetadata call of the discovery: st is "pending" (its batch has
\* not started), "inflight" (awaiting fetch), "ok" or "fail" (its result).
\* outbound tells that a request went out to the Hub, ifNoneMatch is the
\* If-None-Match header it carried (0: none), stale the entry it was taken from
\* (as it was then), status the status of the response that was used, cached
\* the result's flag.
PendingMetadataFetch ==
    [st |-> "pending", cached |-> FALSE, outbound |-> FALSE, ifNoneMatch |-> 0,
     stale |-> NoMetadata, metadata |-> NoFields, status |-> 0]

\* fetchSpaceMetadata up to its first await: the cache lookup, and on a miss
\* the conditional request.  Returns the call's state and the cache after.
fetchSpaceMetadata_begin(c, spaceName, t) ==
    LET got == SpaceMetadataCache_get(c, spaceName, t)
        stale == getForRevalidation(got.self, spaceName)
    IN IF ~IsNull(got.value)
       THEN [slot |-> [PendingMetadataFetch EXCEPT
                          !.st = "ok", !.cached = TRUE, !.metadata = Fields(got.value)],
             self |-> got.self]
       ELSE [slot |-> [PendingMetadataFetch EXCEPT
                          !.st = "inflight", !.outbound = TRUE,
                          !.stale = stale, !.ifNoneMatch = stale.etag],
             self |-> got.self]

\* fetchSpaceMetadata from the response on.
fetchSpaceMetadata_end(c, spaceName, slot, resp, t) ==
    LET done == [PendingMetadataFetch EXCEPT !.outbound = TRUE]
    IN IF resp.status = 304 /\ ~IsNull(slot.stale)
       THEN [slot |-> [done EXCEPT !.st = "ok", !.cached = TRUE, !.status = 304,
                                   !.metadata = Fields(slot.stale)],
             self |-> updateTimestamp(c, spaceName, t)]
       ELSE IF resp.status # 200 \/ ~resp.subdomain
       THEN [slot |-> [done EXCEPT !.st = "fail"], self |-> c]
       ELSE LET metadata == [name |-> spaceName, private |-> resp.private,
                             sdk |-> resp.sdk, etag |-> resp.etag, fetchedAt |-> t]
            IN [slot |-> [done EXCEPT !.st = "ok", !.status = 200,
                                      !.metadata = Fields(metadata)],
                self |-> IF ~metadata.private
                         THEN SpaceMetadataCache_set(c, spaceName, metadata)
                         ELSE c]

\* One fetchSchema call of the discovery, for the space of `metadata`.
NewSchemaFetch(metadata) ==
    [name |-> metadata.name, private |-> metadata.private, st |-> "inflight",
     cached |-> FALSE, outbound |-> FALSE, authHeader |-> FALSE, tools |-> <<>>]

\* fetchSchema up to its first await: the cache lookup, then the request, with
\* the token in X-HF-Authorization for a private space.
fetchSchema_begin(c, metadata, hfToken, t) ==
    LET got == SchemaCache_get(c, metadata.name, t)
    IN IF got.found
       THEN [slot |-> [NewSchemaFetch(metadata) EXCEPT
                          !.st = "ok", !.cached = TRUE, !.tools = got.value.tools],
             self |-> got.self]
       ELSE [slot |-> [NewSchemaFetch(metadata) EXCEPT
                          !.outbound = TRUE,
                          !.authHeader = (metadata.private /\ hfToken)],
             self |-> got.self]

\* Mutant of fetchSchema_end: the schema is stored whatever the space's privacy.
fetchSchema_end_cachesPrivate(c, slot, resp, t) ==
    IF ~resp.ok
    THEN [slot |-> [slot EXCEPT !.st = "fail"], self |-> c]
    ELSE LET schema == [tools |-> resp.tools, fetchedAt |-> t,
                        forPrivate |-> slot.private]
         IN [slot |-> [slot EXCEPT !.st = "ok", !.tools = schema.tools],
             self |-> SchemaCache_set(c, slot.name, schema)]

\* fetchSchema from the response on.
fetchSchema_end(c, slot, resp, t) ==
    IF ~resp.ok
    THEN [slot |-> [slot EXCEPT !.st = "fail"], self |-> c]
    ELSE LET schema == [tools |-> resp.tools, fetchedAt |-> t,
                        forPrivate |-> slot.private]
         IN [slot |-> [slot EXCEPT !.st = "ok", !.tools = schema.tools],
             self |-> IF ~slot.private
                      THEN SchemaCache_set(c, slot.name, schema)
                      ELSE c]

IdleDiscovery ==
    [phase |-> "idle", names |-> <<>>, hfToken |-> FALSE, skipSchemas |-> FALSE,
     meta |-> <<>>, schema |-> <<>>, results |-> <<>>]

\* Mutant of metadataMapKeys: a failed fetch rejects the batch, and the spaces
\* after it are lost.
metadataMapKeys_untilFailure(d) ==
    LET RECURSIVE Collect(_)
        Collect(i) ==
            IF i > Len(d.names) \/ d.meta[i].st # "ok" THEN <<>>
            ELSE <<d.names[i]>> \o Collect(i + 1)
    IN Dedup(Collect(1))

\* fetchSpaceMetadataWithCache's result map, as built by results.set in the
\* order of the names: its keys in insertion order, and the value of a key
\* (the last successful result for that name).
metadataMapKeys(d) ==
    LET RECURSIVE Collect(_)
        Collect(i) ==
            IF i = 0 THEN <<>>
            ELSE IF d.meta[i].st = "ok"
                 THEN Append(Collect(i - 1), d.names[i])
                 ELSE Collect(i - 1)
    IN Dedup(Collect(Len(d.names)))

metadataMapValue(d, spaceName) ==
    LET last == CHOOSE i \in 1..Len(d.names) :
                    /\ d.names[i] = spaceName /\ d.meta[i].st = "ok"
                    /\ \A k \in 1..Len(d.names) :
                          (d.names[k] = spaceName /\ d.meta[k].st = "ok") => k <= i
    IN d.meta[last].metadata

\* Step 2 of getGradioSpaces: the metadata with sdk gradio (a stored metadata
\* always has a subdomain), in the map's order.
gradioMetadata(d) ==
    LET keys == metadataMapKeys(d)
        all == [k \in 1..Len(keys) |-> metadataMapValue(d, keys[k])]
    IN SelectSeq(all, LAMBDA m : m.sdk = "gradio")

\* fetchSchemasWithCache's result map: is there a schema for the name, and which
schemaMapHas(d, spaceName) ==
    \E j \in 1..Len(d.schema) : d.schema[j].name = spaceName /\ d.schema[j].st = "ok"

schemaMapGet(d, spaceName) ==
    LET j == CHOOSE j \in 1..Len(d.schema) :
                d.schema[j].name = spaceName /\ d.schema[j].st = "ok"
    IN d.schema[j]

combineMetadataAndSchemas(d) ==
    LET keys == metadataMapKeys(d)
        info(spaceName) ==
            LET metadata == metadataMapValue(d, spaceName)
            IN [name |-> spaceName, private |-> metadata.private, sdk |-> metadata.sdk,
                tools |-> IF schemaMapHas(d, spaceName)
                          THEN schemaMapGet(d, spaceName).tools ELSE <<>>]
        kept == SelectSeq(keys, LAMBDA n : d.skipSchemas \/ schemaMapHas(d, n))
    IN [k \in 1..Len(kept) |-> info(kept[k])]

RECURSIVE startMetadataBatch(_, _, _, _)
\* for (const batch of batches) batch.map(fetchSpaceMetadata): the calls of one
\* batch, positions i..hi, each run in turn up to its await.
startMetadataBatch(S, i, hi, t) ==
    IF i > hi THEN S
    ELSE LET r == fetchSpaceMetadata_begin(S.mc, S.d.names[i], t)
         IN startMetadataBatch(
                [S EXCEPT !.d.meta[i] = r.slot, !.mc = r.self], i + 1, hi, t)

RECURSIVE startSchemaFetches(_, _, _, _)
\* metadataList.map(fetchSchema): all calls, each run in turn up to its await.
startSchemaFetches(S, list, j, t) ==
    IF j > Len(list) THEN S
    ELSE LET r == fetchSchema_begin(S.sc, list[j], S.d.hfToken, t)
         IN startSchemaFetches(
                [S EXCEPT !.d.schema = Append(@, r.slot), !.sc = r.self], list, j + 1, t)

RECURSIVE getGradioSpaces_continue(_, _)
\* getGradioSpaces between awaits: S = [d, mc, sc] is the discovery and the two
\* caches.  Runs on until a fetch is in flight or the result is built.
getGradioSpaces_continue(S, t) ==
    LET d == S.d
        n == Len(d.names)
        inflightMeta == \E i \in 1..n : d.meta[i].st = "inflight"
        pending == { i \in 1..n : d.meta[i].st = "pending" }
        lo == CHOOSE i \in pending : \A k \in pending : i <= k
        list == gradioMetadata(d)
    IN CASE d.phase = "meta" /\ inflightMeta -> S
         [] d.phase = "meta" /\ ~inflightMeta /\ pending # {} ->
                getGradioSpaces_continue(
                    startMetadataBatch(S, lo, Min(lo + DISCOVERY_CONCURRENCY - 1, n), t), t)
         [] d.phase = "meta" /\ ~inflightMeta /\ pending = {} ->
                IF ~d.skipSchemas /\ Len(list) > 0
                THEN getGradioSpaces_continue(
                        startSchemaFetches([S EXCEPT !.d.phase = "schema"], list, 1, t), t)
                ELSE [S EXCEPT !.d.phase = "done",
                               !.d.results = combineMetadataAndSchemas(d)]
         [] d.phase = "schema" /\ (\E j \in 1..Len(d.schema) : d.schema[j].st = "inflight") -> S
         [] d.phase = "schema" /\ ~(\E j \in 1..Len(d.schema) : d.schema[j].st = "inflight") ->
                [S EXCEPT !.d.phase = "done",
                          !.d.results = combineMetadataAndSchemas(d)]
         [] OTHER -> S

\* The state bundle the discovery operators work on, and its write-back.
Bundle == [d |-> disc, mc |-> spaceMetadataCache, sc |-> schemaCache]

Install(S) ==
    /\ disc' = S.d
    /\ spaceMetadataCache' = S.mc
    /\ schemaCache' = S.sc

\* ---------------------------------------------------- discovery actions
\* The spaceNames arrays: the spaces in any number and order, each once (the
\* proxy factory passes [...new Set(names)]).
NameLists ==
    { l \in UNION { [1..n -> Spaces] : n \in 0..Cardinality(Spaces) } :
        \A a, b \in 1..Len(l) : a # b => l[a] # l[b] }

\* Whether the caller sent a token: the callers here are authenticated.
Tokens == {TRUE}

\* getGradioSpaces(spaceNames, hfToken, {skipSchemas}) is called.
GetGradioSpaces(spaceNames, hfToken, skipSchemas) ==
    /\ disc.phase = "idle"
    /\ nDisc < MaxDiscoveries
    /\ nDisc' = nDisc + 1
    /\ IF Len(spaceNames) = 0
       THEN Install([Bundle EXCEPT !.d = [IdleDiscovery EXCEPT !.phase = "done"]])
       ELSE Install(getGradioSpaces_continue(
                [Bundle EXCEPT !.d =
                    [IdleDiscovery EXCEPT
                        !.phase = "meta", !.names = spaceNames, !.hfToken = hfToken,
                        !.skipSchemas = skipSchemas,
                        !.meta = [i \in 1..Len(spaceNames) |-> PendingMetadataFetch]]],
                now))
    /\ UNCHANGED <<now, discOthers>>

\* The Hub answers (or fails) the metadata request of position i.
MetadataResponse(i, resp) ==
    /\ disc.phase = "meta"
    /\ i \in 1..Len(disc.names)
    /\ disc.meta[i].st = "inflight"
    /\ resp \in HubMetadataResponses(disc.meta[i].ifNoneMatch)
    /\ LET r == fetchSpaceMetadata_end(spaceMetadataCache, disc.names[i],
                                       disc.meta[i], resp, now)
       IN Install(getGradioSpaces_continue(
                [Bundle EXCEPT !.d.meta[i] = r.slot, !.mc = r.self], now))
    /\ UNCHANGED <<now, nDisc, discOthers>>

\* The space answers (or fails) the schema request j.
SchemaResponse(j, resp) ==
    /\ disc.phase = "schema"
    /\ j \in 1..Len(disc.schema)
    /\ disc.schema[j].st = "inflight"
    /\ resp \in HubSchemaResponses(disc.schema[j].name)
    /\ LET r == fetchSchema_end(schemaCache, disc.schema[j], resp, now)
       IN Install(getGradioSpaces_continue(
                [Bundle EXCEPT !.d.schema[j] = r.slot, !.sc = r.self], now))
    /\ UNCHANGED <<now, nDisc, discOthers>>

\* getGradioSpaces hands its result to the caller.
GetGradioSpacesReturns ==
    /\ disc.phase = "done"
    /\ disc' = IdleDiscovery
    /\ UNCHANGED <<now, spaceMetadataCache, schemaCache, nDisc, discOthers>>

\* The environment is followed as long as a discovery can still see it, and
\* not between a discovery's last step and its return.
Observed ==
    /\ disc.phase # "done"
    /\ disc.phase = "idle" => nDisc < MaxDiscoveries

\* clearAllCaches(), between two discoveries
ClearAllCaches ==
    /\ Observed
    /\ disc.phase = "idle"
    /\ spaceMetadataCache' = SpaceMetadataCache_clear(spaceMetadataCache)
    /\ schemaCache' = SchemaCache_clear(schemaCache)
    /\ UNCHANGED <<now, disc, nDisc, discOthers>>

\* Time passes.
Tick ==
    /\ Observed
    /\ now < MaxTicks * TickMs
    /\ now' = now + TickMs
    /\ UNCHANGED <<spaceMetadataCache, schemaCache, disc, nDisc, discOthers>>

DiscInit ==
    /\ now = 0
    /\ spaceMetadataCache = NewSpaceMetadataCache
    /\ schemaCache = NewSchemaCache
    /\ disc = IdleDiscovery
    /\ nDisc = 0

\* ------------------------------------------------- the upstream tool call
\* how many tool handler invocations there are
MaxCalls == 2
\* how many progress notifications one upstream call sends
MaxProgress == 1

Calls == 1..MaxCalls

\* A tool handler invocation (createToolHandler's closure and the
\* callGradioTool call inside it):
\*   phase          where the handler is: "idle" (not invoked), "connecting"
\*                  (createGradioConnection awaits connect), "requesting"
\*                  (client.request is in flight), "closing" (the finally block
\*                  awaits client.close), "returned", "threw"
\*   progressToken  extra._meta.progressToken is defined
\*   aborted        extra.signal.aborted: the caller cancelled the request
\*   session        the upstream SSE session: "none", "open", "closed"
\*   outcome        how client.request settled: "ok", "isError", "throw"
\*   recorded       what the handler told gradioMetrics
\*   relayed        progress notifications relayed to the caller
IdleCall ==
    [phase |-> "idle", progressToken |-> FALSE, aborted |-> FALSE,
     session |-> "none", outcome |-> "none", recorded |-> "none", relayed |-> 0]

Outcomes == {"ok", "isError", "throw"}

\* gradioMetrics.recordSuccess
recordSuccess(m) == [m EXCEPT !.success = @ + 1]

\* gradioMetrics.recordFailure
recordFailure(m) == [m EXCEPT !.failure = @ + 1]

\* createToolHandler, the catch block: the failure is recorded whatever was
\* thrown and whatever the state of extra.signal, and the error is rethrown.
createToolHandler_catch(r) == [r EXCEPT !.phase = "threw", !.recorded = "failure"]

\* createToolHandler after callGradioTool returned a result: a result with
\* isError is thrown into the catch block, any other records a success.
createToolHandler_result(r) ==
    IF r.outcome = "ok"
    THEN [r EXCEPT !.phase = "returned", !.recorded = "success"]
    ELSE createToolHandler_catch(r)

\* createGradioConnection when connect resolves: the session is open.
createGradioConnection(r) == [r EXCEPT !.phase = "requesting", !.session = "open"]

\* the finally block with a close on the success path only
callGradioTool_finally_onSuccessOnly(r) ==
    IF r.outcome = "ok" THEN [r EXCEPT !.session = "closed"] ELSE r

\* callGradioTool, the finally block: client.close() on every way out of the
\* try block.
callGradioTool_finally(r) == [r EXCEPT !.session = "closed"]

\* callGradioTool, the request options: onprogress is installed when the
\* caller asked for progress; extra.signal is not handed to client.request.
requestOptions(r) == [onprogress |-> r.progressToken, signal |-> FALSE]

\* The handler is invoked.  Without an SSE URL it throws at once.
InvokeTool(c, sseUrl, progressToken) ==
    /\ call[c].phase = "idle"
    /\ IF sseUrl
       THEN /\ call' = [call EXCEPT ![c] = [IdleCall EXCEPT !.phase = "connecting",
                                                           !.progressToken = progressToken]]
            /\ UNCHANGED gradioMetrics
       ELSE /\ call' = [call EXCEPT ![c] = createToolHandler_catch(IdleCall)]
            /\ gradioMetrics' = recordFailure(gradioMetrics)
    /\ UNCHANGED callOthers

\* remoteClient.connect resolves.
ConnectOk(c) ==
    /\ call[c].phase = "connecting"
    /\ call' = [call EXCEPT ![c] = createGradioConnection(call[c])]
    /\ UNCHANGED <<gradioMetrics, callOthers>>

\* remoteClient.connect rejects, before the try block of callGradioTool is
\* entered: either the stream never opened, or it opened and the client closed
\* it when the initialize handshake failed.
ConnectFail(c, streamOpened) ==
    /\ call[c].phase = "connecting"
    /\ call' = [call EXCEPT ![c] =
                   createToolHandler_catch(
                       [call[c] EXCEPT !.session = IF streamOpened THEN "closed" ELSE "none",
                                       !.outcome = "throw"])]
    /\ gradioMetrics' = recordFailure(gradioMetrics)
    /\ UNCHANGED callOthers

\* The upstream sends a progress notification; onprogress relays it.
UpstreamProgress(c) ==
    /\ call[c].phase = "requesting"
    /\ requestOptions(call[c]).onprogress
    /\ call[c].relayed < MaxProgress
    /\ call' = [call EXCEPT ![c].relayed = @ + 1]
    /\ UNCHANGED <<gradioMetrics, callOthers>>

\* client.request settles: with a result, with an isError result, or by
\* throwing (an upstream error, a lost stream, the request timeout).  The
\* finally block starts to close the client.
UpstreamResult(c, kind) ==
    /\ call[c].phase = "requesting"
    /\ call' = [call EXCEPT ![c].phase = "closing", ![c].outcome = kind]
    /\ UNCHANGED <<gradioMetrics, callOthers>>

\* client.close() resolves; callGradioTool returns or throws, and the handler
\* records the outcome.
ClientClosed(c) ==
    /\ call[c].phase = "closing"
    /\ LET r == createToolHandler_result(callGradioTool_finally(call[c]))
       IN  /\ call' = [call EXCEPT ![c] = r]
           /\ gradioMetrics' = IF r.recorded = "success"
                               THEN recordSuccess(gradioMetrics)
                               ELSE recordFailure(gradioMetrics)
    /\ UNCHANGED callOthers

\* The caller cancels the request: the request's signal is aborted.  Nothing
\* in the handler listens to it, and requestOptions carries no signal.
Cancel(c) ==
    /\ call[c].phase \in {"connecting", "requesting", "closing"}
    /\ ~call[c].aborted
    /\ call' = [call EXCEPT ![c].aborted = TRUE]
    /\ UNCHANGED <<gradioMetrics, callOthers>>

CallInit ==
    /\ call = [c \in Calls |-> IdleCall]
    /\ gradioMetrics = [success |-> 0, failure |-> 0]

\* ------------------------------------------------------- tool selection
\* the longest builtInTools list of the user settings a caller provides
MaxUserTools == 2

\* the built-in tool ids of the model
ToolIds == {"space_search", "model_search", "hf_doc_search", "hf_doc_fetch"}

\* ALL_BUILTIN_TOOL_IDS of @llmindset/hf-mcp
ALL_BUILTIN_TOOL_IDS == <<"space_search", "model_search", "hf_doc_search", "hf_doc_fetch">>

\* TOOL_ID_GROUPS of @llmindset/hf-mcp: the search group has the
\* documentation search and not the documentation fetch.
TOOL_ID_GROUPS ==
    [hf_api |-> <<"space_search", "model_search">>,
     search |-> <<"model_search", "hf_doc_search">>,
     docs   |-> <<"hf_doc_search", "hf_doc_fetch">>]

\* BOUQUETS: preset name -> AppSettings
BOUQUETS ==
    [hf_api |-> [builtInTools |-> TOOL_ID_GROUPS.hf_api],
     search |-> [builtInTools |-> TOOL_ID_GROUPS.search],
     docs   |-> [builtInTools |-> TOOL_ID_GROUPS.docs],
     all    |-> [builtInTools |-> ALL_BUILTIN_TOOL_IDS]]

\* normalizeBuiltInTools of shared/tool-normalizer: the ids without repeats,
\* first occurrences kept in order.
normalizeBuiltInTools(ids) == Dedup(ids)

\* the x-mcp-bouquet and x-mcp-mix headers as extractAuthBouquetAndMix
\* returns them: "" when the header is absent, "bogus" an unknown preset
HeaderValues == {""} \cup DOMAIN BOUQUETS \cup {"bogus"}

\* "no settings": context.userSettings undefined, getUserSettings null
NoSettings == [builtInTools |-> <<"-">>]

IsSettings(x) == x # NoSettings

\* the AppSettings a caller can hand over in the context
UserSettings ==
    { [builtInTools |-> l] :
        l \in UNION { [1..n -> ToolIds] : n \in 0..MaxUserTools } }

\* what apiClient.getToolStates yields: nothing, or the enabled ids
ApiSettings ==
    {NoSettings} \cup { [builtInTools |-> <<t>>] : t \in {"space_search", "hf_doc_search"} }

\* applySearchEnablesFetch without the test of process.env
applySearchEnablesFetch_ignoresEnv(e, enabledToolIds) ==
    IF "hf_doc_search" \in Range(enabledToolIds) /\ "hf_doc_fetch" \notin Range(enabledToolIds)
    THEN Append(enabledToolIds, "hf_doc_fetch")
    ELSE enabledToolIds

\* applySearchEnablesFetch, e being process.env
applySearchEnablesFetch(e, enabledToolIds) ==
    IF e.SEARCH_ENABLES_FETCH = "true"
    THEN IF "hf_doc_search" \in Range(enabledToolIds)
            /\ "hf_doc_fetch" \notin Range(enabledToolIds)
         THEN Append(enabledToolIds, "hf_doc_fetch")
         ELSE enabledToolIds
    ELSE enabledToolIds

\* the mix with the preset's tools ahead of the user's
mixedTools_presetFirst(baseSettings, mix) ==
    BOUQUETS[mix].builtInTools \o baseSettings.builtInTools

\* selectTools, the mix branch: the user's tools, then the preset's
mixedTools(baseSettings, mix) ==
    baseSettings.builtInTools \o BOUQUETS[mix].builtInTools

\* getUserSettings: the settings of the context, else those of the API client
getUserSettings(userSettings, fromApi) ==
    IF IsSettings(userSettings) THEN userSettings ELSE fromApi

\* selectTools: the ToolSelectionResult (mode, enabledToolIds, baseSettings,
\* mixedBouquet) for the headers, the settings and process.env
selectTools(e, bouquet, mix, userSettings, fromApi, externalApiMode) ==
    LET baseSettings == getUserSettings(userSettings, fromApi) IN
    IF bouquet # "" /\ bouquet \in DOMAIN BOUQUETS
    THEN [mode |-> "bouquet_override",
          enabledToolIds |->
              normalizeBuiltInTools(applySearchEnablesFetch(e, BOUQUETS[bouquet].builtInTools)),
          baseSettings |-> NoSettings, mixedBouquet |-> ""]
    ELSE IF mix # "" /\ mix \in DOMAIN BOUQUETS /\ IsSettings(baseSettings)
    THEN [mode |-> "mix",
          enabledToolIds |->
              normalizeBuiltInTools(
                  applySearchEnablesFetch(e, Dedup(mixedTools(baseSettings, mix)))),
          baseSettings |-> baseSettings, mixedBouquet |-> mix]
    ELSE IF IsSettings(baseSettings)
    THEN [mode |-> IF externalApiMode THEN "external_api" ELSE "internal_api",
          enabledToolIds |->
              normalizeBuiltInTools(applySearchEnablesFetch(e, baseSettings.builtInTools)),
          baseSettings |-> baseSettings, mixedBouquet |-> ""]
    ELSE [mode |-> "fallback",
          enabledToolIds |->
              normalizeBuiltInTools(applySearchEnablesFetch(e, ALL_BUILTIN_TOOL_IDS)),
          baseSettings |-> NoSettings, mixedBouquet |-> ""]

\* no selectTools call in progress
NoSelection ==
    [called |-> FALSE, bouquet |-> "", mix |-> "", userSettings |-> NoSettings,
     fromApi |-> NoSettings,
     result |-> [mode |-> "", enabledToolIds |-> <<>>,
                 baseSettings |-> NoSettings, mixedBouquet |-> ""]]

\* A request arrives and selectTools runs on its context.
SelectTools(bouquet, mix, userSettings, fromApi, externalApiMode) ==
    /\ ~selection.called
    /\ selection' = [called |-> TRUE, bouquet |-> bouquet, mix |-> mix,
                     userSettings |-> userSettings,
                     fromApi |-> IF IsSettings(userSettings) THEN NoSettings ELSE fromApi,
                     result |-> selectTools(env, bouquet, mix, userSettings,
                                            fromApi, externalApiMode)]
    /\ UNCHANGED <<env, selOthers>>

\* The caller has its ToolSelectionResult; the request is over.
SelectToolsReturns ==
    /\ selection.called
    /\ selection' = NoSelection
    /\ UNCHANGED <<env, selOthers>>

\* SEARCH_ENABLES_FETCH is set or unset ("" is unset) between two requests.
SetEnv(value) ==
    /\ ~selection.called
    /\ env.SEARCH_ENABLES_FETCH # value
    /\ env' = [env EXCEPT !.SEARCH_ENABLES_FETCH = value]
    /\ UNCHANGED <<selection, selOthers>>

SelInit ==
    /\ env = [SEARCH_ENABLES_FETCH |-> ""]
    /\ selection = NoSelection

\* ---------------------------------------------------------- gradio-utils
\* A string is the sequence of its characters.

\* the space indexes (0-based positions in the discovery's result) tried
MaxSpaceIndex == 9
\* the tool indexes (0-based positions in a space's tool list) tried
MaxToolIndex == 10

\* GRADIO_PREFIX and GRADIO_PRIVATE_PREFIX of shared/constants
GRADIO_PREFIX == <<"g", "r">>
GRADIO_PRIVATE_PREFIX == <<"g", "r", "p">>

\* the longest outward name
MaxOutwardLength == 49
\* the characters createGradioToolName keeps from the start of a long name
KeepFromStart == 20

DigitChars == <<"0", "1", "2", "3", "4", "5", "6", "7", "8", "9">>

RECURSIVE toString(_)
\* Number.prototype.toString of a natural number
toString(n) ==
    IF n < 10 THEN <<DigitChars[n + 1]>>
    ELSE toString(n \div 10) \o <<DigitChars[(n % 10) + 1]>>

\* the characters of the class [-\s.]
IsSpecialChar(c) == c \in {"-", " ", "."}

\* String.prototype.toLowerCase, character by character
toLowerCase(str) ==
    [k \in 1..Len(str) |->
        CASE str[k] = "A" -> "a"
          [] str[k] = "B" -> "b"
          [] str[k] = "N" -> "n"
          [] str[k] = "O" -> "o"
          [] str[k] = "E" -> "e"
          [] OTHER -> str[k]]

RECURSIVE replaceSpecialRuns(_)
\* str.replace(/[-\s.]+/g, '_'): every maximal run of special characters
\* becomes one underscore
replaceSpecialRuns(str) ==
    IF str = <<>> THEN <<>>
    ELSE LET front == SubSeq(str, 1, Len(str) - 1)
             last == str[Len(str)]
         IN IF ~IsSpecialChar(last) THEN replaceSpecialRuns(front) \o <<last>>
            ELSE IF front # <<>> /\ IsSpecialChar(front[Len(front)])
            THEN replaceSpecialRuns(front)
            ELSE replaceSpecialRuns(front) \o <<"_">>

\* String.prototype.substring(0, end)
substring0(str, end) == SubSeq(str, 1, Min(IF end < 0 THEN 0 ELSE end, Len(str)))

\* String.prototype.slice(start): a negative start counts from the end, and
\* slice(-0) is slice(0), the whole string
slice(str, start) ==
    LET from == IF start < 0
                THEN (IF Len(str) + start < 0 THEN 0 ELSE Len(str) + start)
                ELSE Min(start, Len(str))
    IN SubSeq(str, from + 1, Len(str))

\* "no toolIndex argument"
NoToolIndex == -1

\* createGradioToolName with the joining underscore left out of the count
createGradioToolName_offByOne(toolName, index, isPrivate, toolIndex) ==
    LET prefix == IF isPrivate THEN GRADIO_PRIVATE_PREFIX ELSE GRADIO_PREFIX
        indexStr == toString(index + 1)
        maxNameLength == MaxOutwardLength - Len(prefix) - Len(indexStr) - 1
        sanitizedName == IF toolName # <<>>
                         THEN toLowerCase(replaceSpecialRuns(toolName))
                         ELSE <<"u", "n", "k", "n", "o", "w", "n">>
        finalName ==
            IF Len(sanitizedName) > maxNameLength
            THEN IF toolIndex # NoToolIndex
                 THEN LET toolIndexPrefix == toString(toolIndex) \o <<"_">>
                          availableForName == maxNameLength - Len(toolIndexPrefix)
                          keepFromEnd == availableForName - KeepFromStart
                      IN toolIndexPrefix \o substring0(sanitizedName, KeepFromStart)
                             \o <<"_">> \o slice(sanitizedName, -keepFromEnd)
                 ELSE LET keepFromEnd == maxNameLength - KeepFromStart
                      IN substring0(sanitizedName, KeepFromStart)
                             \o <<"_">> \o slice(sanitizedName, -keepFromEnd)
            ELSE sanitizedName
    IN prefix \o indexStr \o <<"_">> \o finalName

\* createGradioToolName
createGradioToolName(toolName, index, isPrivate, toolIndex) ==
    LET prefix == IF isPrivate THEN GRADIO_PRIVATE_PREFIX ELSE GRADIO_PREFIX
        indexStr == toString(index + 1)
        maxNameLength == MaxOutwardLength - Len(prefix) - Len(indexStr) - 1
        sanitizedName == IF toolName # <<>>
                         THEN toLowerCase(replaceSpecialRuns(toolName))
                         ELSE <<"u", "n", "k", "n", "o", "w", "n">>
        finalName ==
            IF Len(sanitizedName) > maxNameLength
            THEN IF toolIndex # NoToolIndex
                 THEN LET toolIndexPrefix == toString(toolIndex) \o <<"_">>
                          availableForName == maxNameLength - Len(toolIndexPrefix)
                          keepFromEnd == availableForName - KeepFromStart - 1
                      IN toolIndexPrefix \o substring0(sanitizedName, KeepFromStart)
                             \o <<"_">> \o slice(sanitizedName, -keepFromEnd)
                 ELSE LET keepFromEnd == maxNameLength - KeepFromStart - 1
                      IN substring0(sanitizedName, KeepFromStart)
                             \o <<"_">> \o slice(sanitizedName, -keepFromEnd)
            ELSE sanitizedName
    IN prefix \o indexStr \o <<"_">> \o finalName

\* n times the character c
Repeat(c, n) == [k \in 1..n |-> c]

\* the lengths of the two halves of an upstream tool name
HalfLengths == {0, 1, 20, 22, 23, 24}

\* what stands between the two halves
Separators == {<<>>, <<"-">>, <<".", " ">>, <<"_">>, <<"_", "-">>}

\* the upstream tool names: a run of one letter, a separator, a run of another
ToolNames ==
    { Repeat(c, n) \o sep \o Repeat(d, m) :
        c \in {"a", "B"}, d \in {"b"}, n \in HalfLengths, m \in HalfLengths,
        sep \in Separators }

SpaceIndexes == {0, 1, MaxSpaceIndex - 1, MaxSpaceIndex}

ToolIndexes == {NoToolIndex, 0, MaxToolIndex - 1, MaxToolIndex}

\* no createGradioToolName call in progress
NoNaming ==
    [called |-> FALSE, toolName |-> <<>>, index |-> 0, isPrivate |-> FALSE,
     toolIndex |-> NoToolIndex, result |-> <<>>]

\* registerRemoteTools names a tool.
CreateGradioToolName(toolName, index, isPrivate, toolIndex) ==
    /\ ~naming.called
    /\ naming' = [called |-> TRUE, toolName |-> toolName, index |-> index,
                  isPrivate |-> isPrivate, toolIndex |-> toolIndex,
                  result |-> createGradioToolName(toolName, index, isPrivate, toolIndex)]
    /\ UNCHANGED namingOthers

\* The name is in the caller's hands.
CreateGradioToolNameReturns ==
    /\ naming.called
    /\ naming' = NoNaming
    /\ UNCHANGED namingOthers

NamingInit == naming = NoNaming

\* ------------------------------------------------------------- mcp-proxy
\* how many spaces the user settings list
MaxSettingsSpaces == 2

\* "undefined", for a header that is absent and for settings that are not there
Undefined == <<"undefined">>

RECURSIVE trim(_)
\* String.prototype.trim, a blank being the only white space
trim(str) ==
    IF str = <<>> THEN <<>>
    ELSE IF Head(str) = " " THEN trim(Tail(str))
    ELSE IF str[Len(str)] = " " THEN trim(SubSeq(str, 1, Len(str) - 1))
    ELSE str

RECURSIVE split(_, _)
\* String.prototype.split(sep) for a separator of one character
split(str, sep) ==
    IF \A k \in 1..Len(str) : str[k] # sep THEN <<str>>
    ELSE LET k == CHOOSE i \in 1..Len(str) :
                      str[i] = sep /\ \A h \in 1..(i - 1) : str[h] # sep
         IN <<SubSeq(str, 1, k - 1)>> \o split(SubSeq(str, k + 1, Len(str)), sep)

\* the string 'none'
None == <<"n", "o", "n", "e">>

\* parseGradioSpaceIds, the validation of one entry: exactly one slash, with
\* something on both sides
isValidFormat(entry) ==
    LET slashes == { k \in 1..Len(entry) : entry[k] = "/" }
    IN /\ Cardinality(slashes) = 1
       /\ \A k \in slashes : k > 1 /\ k < Len(entry)

\* parseGradioSpaceIds: the names of the spaces of a gradio parameter
parseGradioSpaceIds(gradioParam) ==
    IF toLowerCase(trim(gradioParam)) = None THEN <<>>
    ELSE LET trimmed == [k \in 1..Len(split(gradioParam, ",")) |->
                            trim(split(gradioParam, ",")[k])]
             entries == SelectSeq(trimmed, LAMBDA s : Len(s) > 0)
         IN SelectSeq(entries, LAMBDA entry : toLowerCase(entry) # None /\ isValidFormat(entry))

\* the spaces of the model
SpaceAX == <<"a", "/", "x">>
SpaceBY == <<"b", "/", "y">>
SpaceCZ == <<"c", "/", "z">>
SpaceNames == {SpaceAX, SpaceBY, SpaceCZ}

\* the values of the gradio header as extractAuthBouquetAndMix returns them
GradioHeaders ==
    { Undefined,
      None,
      <<"N", "O", "N", "E">>,
      SpaceAX,
      SpaceAX \o <<",">> \o SpaceBY,
      <<" ">> \o SpaceAX \o <<" ", ",", ","  >> \o None \o <<",">> \o SpaceBY \o <<",">> \o SpaceAX,
      <<"a", "x">> \o <<",">> \o SpaceAX \o <<"/", "b">> \o <<",", "/", "x">>,
      <<"a", "x", ",">> \o SpaceBY }

\* the values of the bouquet header: absent, a preset, the preset of everything
ProxyBouquets == {Undefined, <<"search">>, <<"all">>}

\* a value JavaScript takes as true in a condition: neither undefined nor ''
Truthy(value) == value # Undefined /\ value # <<>>

\* settings that are undefined
UndefinedSettings == [spaceTools |-> <<Undefined>>]

\* the settings sharedApiClient.getSettings can yield: none, or the user's
\* space tools (the names of distinct spaces)
ApiSpaceSettings ==
    {UndefinedSettings} \cup
    { [spaceTools |-> l] :
        l \in { q \in UNION { [1..n -> SpaceNames] : n \in 0..MaxSettingsSpaces } :
                  \A i, j \in 1..Len(q) : i # j => q[i] # q[j] } }

\* the tools the original server factory registers: what the selection enabled
BuiltInToolLists == { <<"model_search">>, <<"model_search", "hf_doc_search">> }

\* a built-in tool in the server's registry
BuiltInEntry(id) == [kind |-> "builtin", space |-> <<>>, toolIndex |-> 0, name |-> <<id>>]

\* the gradio_files tool in the server's registry
GradioFilesEntry == [kind |-> "gradio_files", space |-> <<>>, toolIndex |-> 0,
                     name |-> <<"gradio_files">>]

\* the tool lists a discovered space can have
UpstreamToolLists ==
    { << <<"p", "r", "e", "d", "i", "c", "t">> >>,
      << <<"a", "-", "b">>, <<"a", ".", "b">> >>,
      << Repeat("a", 24) \o <<"x">> \o Repeat("b", 24),
         Repeat("a", 24) \o <<"y">> \o Repeat("b", 24) >> }

\* the privacy flag the discovery reports for a space
IsPrivateSpace(space) == space = SpaceCZ

\* getGradioSpaces as the proxy sees it: the requested spaces that were
\* discovered with success, in the order of the request, each with its tools
discoveredSpaces(allSpaceNames, ok, toolList) ==
    LET names == SelectSeq(allSpaceNames, LAMBDA s : s \in ok)
    IN [k \in 1..Len(names) |->
           [name |-> names[k], private |-> IsPrivateSpace(names[k]), tools |-> toolList]]

\* registerRemoteTools: the tools of the space at position originalIndex, each
\* under the name createGradioToolName gives it
registerRemoteTools(space, originalIndex) ==
    [t \in 1..Len(space.tools) |->
        [kind |-> "gradio", space |-> space.name, toolIndex |-> t - 1,
         name |-> createGradioToolName(space.tools[t], originalIndex, space.private, t - 1)]]

RECURSIVE registrationPlan(_, _)
\* the loop over gradioSpaces: what is handed to server.tool, in order
registrationPlan(gradioSpaces, k) ==
    IF k > Len(gradioSpaces) THEN <<>>
    ELSE registerRemoteTools(gradioSpaces[k], k - 1) \o registrationPlan(gradioSpaces, k + 1)

\* server.tool throws on a name the server has already: the position in the
\* plan of the first such name, 0 if there is none
firstRejected(plan) ==
    LET dups == { j \in 1..Len(plan) : \E i \in 1..(j - 1) : plan[i].name = plan[j].name }
    IN IF dups = {} THEN 0 ELSE CHOOSE j \in dups : \A h \in dups : j <= h

\* the test of the gradio header against 'none', left out
gradioDisabled_never(gradio) == FALSE

\* createProxyServerFactory: gradio === 'none'
gradioDisabled(gradio) == gradio = None

\* the space names with the settings' spaces left out
allSpaceNames_gradioOnly(gradio, settings) ==
    IF Truthy(gradio) THEN parseGradioSpaceIds(gradio) ELSE <<>>

\* createProxyServerFactory: the space names of the gradio header and of the
\* settings, without repeats
allSpaceNames(gradio, settings) ==
    Dedup((IF Truthy(gradio) THEN parseGradioSpaceIds(gradio) ELSE <<>>)
          \o (IF settings # UndefinedSettings THEN settings.spaceTools ELSE <<>>))

\* createProxyServerFactory, the proxy factory: the settings in effect, the
\* spaces discovered, what was handed to server.tool, the tools of the server
\* and whether the factory returned or threw
createProxyServerFactory(bouquet, gradio, userSettings, skipGradio, apiSettings, builtIns, ok, toolList, gradioFiles) ==
    LET settings == IF ~skipGradio /\ userSettings = UndefinedSettings /\ ~Truthy(bouquet)
                    THEN apiSettings ELSE userSettings
        local == [k \in 1..Len(builtIns) |-> BuiltInEntry(builtIns[k])]
        result == [settings |-> settings, found |-> <<>>, handed |-> <<>>,
                   tools |-> local, outcome |-> "returned"]
        names == allSpaceNames(gradio, settings)
        gradioSpaces == discoveredSpaces(names, ok, toolList)
        plan == registrationPlan(gradioSpaces, 1)
        rejected == firstRejected(plan)
    IN IF skipGradio THEN result
       ELSE IF gradioDisabled(gradio) THEN result
       ELSE IF Truthy(bouquet) /\ bouquet # <<"all">> /\ ~Truthy(gradio) THEN result
       ELSE IF Len(names) = 0 THEN result
       ELSE IF Len(gradioSpaces) = 0 THEN result
       ELSE IF rejected # 0
       THEN [result EXCEPT !.found = [k \in 1..Len(gradioSpaces) |-> gradioSpaces[k].name],
                           !.handed = SubSeq(plan, 1, rejected),
                           !.tools = local \o SubSeq(plan, 1, rejected - 1),
                           !.outcome = "threw"]
       ELSE [result EXCEPT !.found = [k \in 1..Len(gradioSpaces) |-> gradioSpaces[k].name],
                           !.handed = plan,
                           !.tools = local \o plan
                                       \o (IF gradioFiles THEN <<GradioFilesEntry>> ELSE <<>>)]

\* no proxy factory call in progress
NoProxy ==
    [called |-> FALSE, bouquet |-> Undefined, gradio |-> Undefined, skipGradio |-> FALSE,
     builtIns |-> <<>>, ok |-> {}, toolList |-> <<>>,
     server |-> [settings |-> UndefinedSettings, found |-> <<>>, handed |-> <<>>,
                 tools |-> <<>>, outcome |-> "returned"]]

\* A transport asks the proxy factory for a server; the transports hand over
\* no user settings.
CreateProxyServer(bouquet, gradio, skipGradio, apiSettings, builtIns, ok, toolList, gradioFiles) ==
    /\ ~proxy.called
    /\ proxy' = [called |-> TRUE, bouquet |-> bouquet, gradio |-> gradio,
                 skipGradio |-> skipGradio, builtIns |-> builtIns, ok |-> ok,
                 toolList |-> toolList,
                 server |-> createProxyServerFactory(bouquet, gradio, UndefinedSettings, skipGradio,
                                apiSettings, builtIns, ok, toolList, gradioFiles)]
    /\ UNCHANGED proxyOthers

\* The transport has its server, or the error.
CreateProxyServerReturns ==
    /\ proxy.called
    /\ proxy' = NoProxy
    /\ UNCHANGED proxyOthers

ProxyInit == proxy = NoProxy

\* ------------------------------------------------- response post-processing
\* the most content blocks in the upstream results considered
MaxContent == 3

\* the content blocks of upstream results: images (the type in either case),
\* plain text, a text that is a URL, and a resource with a url field
ImageBlock == [type |-> "image", text |-> "", url |-> ""]
UpperImageBlock == [type |-> "IMAGE", text |-> "", url |-> ""]
TextBlock == [type |-> "text", text |-> "hello", url |-> ""]
UrlTextBlock == [type |-> "text", text |-> "Image URL: https://x/y.png", url |-> ""]
ResourceBlock == [type |-> "resource_link", text |-> "", url |-> "https://x/r.wav"]
ContentBlocks == {ImageBlock, UpperImageBlock, TextBlock, UrlTextBlock, ResourceBlock}

\* the contents of upstream results
Contents == UNION { [1..n -> ContentBlocks] : n \in 0..MaxContent }

\* the text block put in place of a result that had nothing but images
OmittedBlock ==
    [type |-> "text",
     text |-> "Image content omitted due to client configuration (no_image_content=true).",
     url |-> ""]

\* typeValue of the filter: the type of a block in lower case
typeValue(item) == IF item.type = "IMAGE" THEN "image" ELSE item.type

\* the filter without the fallback text
stripImageContentFromResult_noFallback(callResult, enabled) ==
    IF ~enabled \/ Len(callResult.content) = 0 THEN callResult
    ELSE [callResult EXCEPT !.content = SelectSeq(callResult.content, LAMBDA item : typeValue(item) # "image")]

\* stripImageContentFromResult: the result without its image blocks
stripImageContentFromResult(callResult, enabled) ==
    IF ~enabled THEN callResult
    ELSE IF Len(callResult.content) = 0 THEN callResult
    ELSE LET filteredContent == SelectSeq(callResult.content, LAMBDA item : typeValue(item) # "image")
         IN IF Len(filteredContent) = Len(callResult.content) THEN callResult
            ELSE IF Len(filteredContent) = 0
                 THEN [callResult EXCEPT !.content = <<OmittedBlock>>]
                 ELSE [callResult EXCEPT !.content = filteredContent]

\* the URL of a text or url field: what follows an "Image URL:" prefix when it
\* begins with http:// or https://, and "" when the field holds no URL
urlOf(field) ==
    CASE field = "Image URL: https://x/y.png" -> "https://x/y.png"
      [] field = "https://x/r.wav" -> "https://x/r.wav"
      [] OTHER -> ""

\* extractUrlFromContent: the first URL of the content, "" for undefined
RECURSIVE extractUrlFromContent(_)
extractUrlFromContent(content) ==
    IF content = <<>> THEN ""
    ELSE LET candidate == Head(content)
         IN IF urlOf(candidate.url) # "" THEN urlOf(candidate.url)
            ELSE IF urlOf(candidate.text) # "" THEN urlOf(candidate.text)
            ELSE extractUrlFromContent(Tail(content))

\* the client names of the sessions
ClientNames == {"openai-mcp", "claude-ai"}

\* applyResultPostProcessing: the image filter, then the structured content
\* for the OpenAI client
applyResultPostProcessing(result, stripImageContent, clientName) ==
    LET filteredResult == stripImageContentFromResult(result, stripImageContent)
        extractedUrl == extractUrlFromContent(filteredResult.content)
    IN IF clientName = "openai-mcp" /\ extractedUrl # ""
       THEN [filteredResult EXCEPT !.structuredContent = extractedUrl]
       ELSE filteredResult

\* no post-processing in progress
NoPost ==
    [called |-> FALSE, stripImageContent |-> FALSE, clientName |-> "claude-ai",
     content |-> <<>>, result |-> [content |-> <<>>, structuredContent |-> ""]]

\* the tool handler post-processes the result it got from upstream
ApplyResultPostProcessing(content, stripImageContent, clientName) ==
    /\ ~post.called
    /\ post' = [called |-> TRUE, stripImageContent |-> stripImageContent,
                clientName |-> clientName, content |-> content,
                result |-> applyResultPostProcessing(
                              [content |-> content, structuredContent |-> ""],
                              stripImageContent, clientName)]
    /\ UNCHANGED postOthers

\* the handler returns the post-processed result
ApplyResultPostProcessingReturns ==
    /\ post.called
    /\ post' = NoPost
    /\ UNCHANGED postOthers

PostInit == post = NoPost

\* ------------------------------------------------------------- transports
\* the most sessions one transport creates
MaxSessions == 2

\* session ids; a request without a session id carries NoSessionId
SessionIds == 1..MaxSessions
NoSessionId == 0

StatefulKinds == {"streamableHttp", "sse"}
TransportKinds == StatefulKinds \cup {"stateless"}

\* a session object before it is created; closeCalls counts the calls of
\* transport.close() and of server.close() that cleanupSession makes for it,
\* cleaned the calls of trackSessionCleaned with it
NoSession ==
    [exists |-> FALSE, cleaningUp |-> FALSE, heartbeatInterval |-> FALSE,
     transportClosed |-> FALSE, serverClosed |-> FALSE, task |-> "none",
     clientName |-> "undefined", afterShutdown |-> FALSE,
     closeCalls |-> [transport |-> 0, server |-> 0], cleaned |-> 0]

\* the id the next session gets (randomUUID: never one given before)
NextSessionId == 1 + Cardinality({ id \in SessionIds : sessionObjects[id].exists })

\* the JSON-RPC requests of the clients: method and params.name
InitializeRequest == [method |-> "initialize", name |-> ""]
ToolsListRequest == [method |-> "tools/list", name |-> ""]
RpcRequests ==
    { InitializeRequest, ToolsListRequest,
      [method |-> "tools/call", name |-> "gr1_predict"],
      [method |-> "tools/call", name |-> "model_search"],
      [method |-> "tools/call", name |-> "gradio_files"],
      [method |-> "resources/list", name |-> ""],
      [method |-> "ping", name |-> ""],
      [method |-> "notifications/initialized", name |-> ""],
      [method |-> "tools/call", name |-> "dynamic_space"],
      [method |-> "tools/call", name |-> "dynamic_space", operation |-> "invoke"] }

\* params.arguments.operation of a request ("": there is none)
operationOf(body) == IF "operation" \in DOMAIN body THEN body.operation ELSE ""

\* the client names of initialize requests ("undefined": no clientInfo)
RequestClientNames == {"undefined", "openai-mcp", "claude-ai"}

\* isInitializeRequest of the SDK
isInitializeRequest(body) == body.method = "initialize"

\* isJSONRPCNotification of the SDK: a request without an id
isJSONRPCNotification(body) == body.method = "notifications/initialized"

\* isGradioToolCall: a tools/call of a tool named gr<n>_ or grp<n>_, or of
\* dynamic_space with the operation invoke
isGradioToolCall(body) ==
    /\ body.method = "tools/call"
    /\ \/ body.name \in {"gr1_predict", "grp2_predict"}
       \/ body.name = "dynamic_space" /\ operationOf(body) = "invoke"

\* skipGradioSetup without the special case of gradio_files
skipGradioSetup_noSpecialCase(body) ==
    IF body.method = "initialize" \/ body.method = "resources/list" THEN TRUE
    ELSE IF body.method = "tools/call" THEN ~isGradioToolCall(body)
    ELSE FALSE

\* skipGradioSetup: whether the server factory may leave out the Gradio spaces
skipGradioSetup(body) ==
    IF body.method = "initialize" \/ body.method = "resources/list" THEN TRUE
    ELSE IF body.method = "tools/call"
         THEN IF body.name = "gradio_files" THEN FALSE ELSE ~isGradioToolCall(body)
         ELSE FALSE

\* shouldHandle without the resource methods of the openai-mcp client
shouldHandle_noResources(body, clientName) ==
    body.method \in {"tools/list", "tools/call", "prompts/list", "prompts/get", "initialize"}

\* shouldHandle: whether the request needs the full server
shouldHandle(body, clientName) ==
    body.method \in
        {"tools/list", "tools/call", "prompts/list", "prompts/get", "initialize"}
        \cup (IF clientName = "openai-mcp"
              THEN {"resources/list", "resources/read", "resources/templates/list"}
              ELSE {})

\* a response: the HTTP status, the JsonRpcErrors constructor used ("none"
\* when the request was handled, "Unauthorized" for the plain 401), the
\* server that handled the request, the skipGradio flag given to the server
\* factory and the session created
Response(status, error) ==
    [status |-> status, error |-> error, handledBy |-> "none", skipGradio |-> FALSE,
     created |-> NoSessionId]

Dispatched == [Response(200, "none") EXCEPT !.handledBy = "session"]

\* no request answered yet; of an answered request, known and cleaningUp tell
\* whether its session was in the map and being cleaned up when it arrived
NoRequest ==
    [method |-> "none", sessionId |-> NoSessionId, body |-> ToolsListRequest,
     clientName |-> "undefined", known |-> FALSE, cleaningUp |-> FALSE,
     afterShutdown |-> FALSE,
     response |-> Response(0, "none"), twin |-> Response(0, "none")]

Answered(method, sessionId, body, response) ==
    [method |-> method, sessionId |-> sessionId, body |-> body,
     clientName |-> "undefined", known |-> sessionId \in transport.sessions,
     cleaningUp |-> sessionId \in SessionIds /\ sessionObjects[sessionId].cleaningUp,
     afterShutdown |-> shutdownCalled, response |-> response, twin |-> Response(0, "none")]

\* no connection attempt in progress
NoConn ==
    [pc |-> "idle", existing |-> NoSessionId, body |-> InitializeRequest,
     afterShutdown |-> FALSE]

\* the transport before initialize()
NoTransport ==
    [kind |-> "none", analyticsMode |-> FALSE, isShuttingDown |-> FALSE,
     staleCheckInterval |-> FALSE, pingInterval |-> FALSE, sessions |-> {}]

\* initialize(): the routes and, on a stateful transport, the stale check and
\* the ping keep-alive
TransportInitialize(kind, analyticsMode) ==
    /\ transport.kind = "none"
    /\ kind = "stateless" \/ ~analyticsMode
    /\ transport' = [transport EXCEPT !.kind = kind, !.analyticsMode = analyticsMode,
                                      !.staleCheckInterval = kind \in StatefulKinds,
                                      !.pingInterval = kind \in StatefulKinds]
    /\ UNCHANGED <<sessionObjects, conn, lastRequest, cleanupCall, shutdownCalled>>
    /\ UNCHANGED transportOthers

\* shutdown() that only logs, on every transport
shutdown_signalOnly(t) == t

\* shutdown(): a stateful transport marks itself as shutting down, the
\* stateless one only logs
shutdown(t) ==
    IF t.kind \in StatefulKinds THEN [t EXCEPT !.isShuttingDown = TRUE] ELSE t

Shutdown ==
    /\ transport.kind # "none"
    /\ ~shutdownCalled
    /\ shutdownCalled' = TRUE
    /\ transport' = shutdown(transport)
    /\ UNCHANGED <<sessionObjects, conn, lastRequest, cleanupCall>>
    /\ UNCHANGED transportOthers

\* cleanupSession that marks the session and closes nothing
cleanupSession_marksOnly(objects, sessions, sessionId) ==
    IF sessionId \notin sessions \/ objects[sessionId].cleaningUp THEN objects
    ELSE [objects EXCEPT ![sessionId].cleaningUp = TRUE,
                         ![sessionId].heartbeatInterval = FALSE]

\* cleanupSession up to its first await: nothing for a session that is not in
\* the map or is being cleaned up already; otherwise the session is marked,
\* its heartbeat stopped and the close of its transport begun
cleanupSession(objects, sessions, sessionId) ==
    IF sessionId \notin sessions \/ objects[sessionId].cleaningUp THEN objects
    ELSE [objects EXCEPT ![sessionId].cleaningUp = TRUE,
                         ![sessionId].heartbeatInterval = FALSE,
                         ![sessionId].closeCalls.transport = @ + 1,
                         ![sessionId].task = "transport.close"]

\* handlePostRequest that opens a session for any request without session id
handlePostRequest_anyCreates(t, sessionId, body) ==
    IF sessionId = NoSessionId /\ t.isShuttingDown THEN "serverShuttingDown"
    ELSE IF sessionId \in t.sessions THEN "existingSession"
    ELSE IF sessionId = NoSessionId THEN "createSession"
    ELSE "sessionNotFound"

\* handlePostRequest: what the streaming-HTTP transport does with a POST
handlePostRequest(t, sessionId, body) ==
    IF sessionId = NoSessionId /\ t.isShuttingDown THEN "serverShuttingDown"
    ELSE IF sessionId \in t.sessions THEN "existingSession"
    ELSE IF sessionId = NoSessionId /\ isInitializeRequest(body) THEN "createSession"
    ELSE IF sessionId = NoSessionId THEN "invalidRequest"
    ELSE "sessionNotFound"

\* POST /mcp on the streaming-HTTP transport
HandlePostRequest(sessionId, body) ==
    /\ transport.kind = "streamableHttp"
    /\ lastRequest = NoRequest
    /\ LET route == handlePostRequest(transport, sessionId, body)
       IN CASE route = "serverShuttingDown" ->
                 /\ lastRequest' = Answered("POST", sessionId, body, Response(503, "serverShuttingDown"))
                 /\ conn' = conn
            [] route = "existingSession" ->
                 /\ lastRequest' = Answered("POST", sessionId, body, Dispatched)
                 /\ conn' = conn
            [] route = "createSession" ->
                 /\ conn.pc = "idle"
                 /\ NextSessionId \in SessionIds
                 /\ conn' = [pc |-> "validateAuth", existing |-> NoSessionId,
                             body |-> body, afterShutdown |-> shutdownCalled]
                 /\ lastRequest' = lastRequest
            [] route = "invalidRequest" ->
                 /\ lastRequest' = Answered("POST", sessionId, body, Response(400, "invalidRequest"))
                 /\ conn' = conn
            [] OTHER ->
                 /\ lastRequest' = Answered("POST", sessionId, body, Response(404, "sessionNotFound"))
                 /\ conn' = conn
    /\ UNCHANGED <<transport, sessionObjects, cleanupCall, shutdownCalled>>
    /\ UNCHANGED transportOthers

\* GET /mcp on the streaming-HTTP transport: the SSE stream of a session
HandleGetRequest(sessionId) ==
    /\ transport.kind = "streamableHttp"
    /\ lastRequest = NoRequest
    /\ IF sessionId = NoSessionId \/ sessionId \notin transport.sessions
       THEN /\ lastRequest' = Answered("GET", sessionId, ToolsListRequest, Response(400, "sessionNotFound"))
            /\ sessionObjects' = sessionObjects
       ELSE /\ lastRequest' = Answered("GET", sessionId, ToolsListRequest, Dispatched)
            /\ sessionObjects' = [sessionObjects EXCEPT ![sessionId].heartbeatInterval = TRUE]
    /\ UNCHANGED <<transport, conn, cleanupCall, shutdownCalled>>
    /\ UNCHANGED transportOthers

\* DELETE /mcp on the streaming-HTTP transport: the end of a session
HandleDeleteRequest(sessionId) ==
    /\ transport.kind = "streamableHttp"
    /\ lastRequest = NoRequest
    /\ IF sessionId = NoSessionId \/ sessionId \notin transport.sessions
       THEN /\ lastRequest' = Answered("DELETE", sessionId, ToolsListRequest, Response(404, "sessionNotFound"))
            /\ sessionObjects' = sessionObjects
       ELSE /\ lastRequest' = Answered("DELETE", sessionId, ToolsListRequest, Dispatched)
            /\ sessionObjects' = cleanupSession(sessionObjects, transport.sessions, sessionId)
    /\ UNCHANGED <<transport, conn, cleanupCall, shutdownCalled>>
    /\ UNCHANGED transportOthers

\* GET /sse: a new SSE connection, possibly of a client that had a session
HandleSseConnection(existingSessionId) ==
    /\ transport.kind = "sse"
    /\ lastRequest = NoRequest
    /\ IF transport.isShuttingDown
       THEN /\ lastRequest' = Answered("SSE", existingSessionId, InitializeRequest,
                                Response(503, "serverShuttingDown"))
            /\ UNCHANGED <<conn, sessionObjects>>
       ELSE /\ conn.pc = "idle"
            /\ NextSessionId \in SessionIds
            /\ lastRequest' = lastRequest
            /\ IF /\ existingSessionId \in transport.sessions
                  /\ ~sessionObjects[existingSessionId].cleaningUp
               THEN /\ sessionObjects' = cleanupSession(sessionObjects, transport.sessions,
                                                        existingSessionId)
                    /\ conn' = [pc |-> "closeConnection", existing |-> existingSessionId,
                                body |-> InitializeRequest,
                                afterShutdown |-> shutdownCalled]
               ELSE /\ sessionObjects' = sessionObjects
                    /\ conn' = [pc |-> "validateAuth", existing |-> existingSessionId,
                                body |-> InitializeRequest,
                                afterShutdown |-> shutdownCalled]
    /\ UNCHANGED <<transport, cleanupCall, shutdownCalled>>
    /\ UNCHANGED transportOthers

\* closeConnection of the old session of a reconnecting client returns
CloseConnectionReturns ==
    /\ conn.pc = "closeConnection"
    /\ sessionObjects[conn.existing].task = "done"
    /\ conn' = [conn EXCEPT !.pc = "validateAuth"]
    /\ UNCHANGED <<transport, sessionObjects, lastRequest, cleanupCall, shutdownCalled>>
    /\ UNCHANGED transportOthers

\* the request of a connection attempt, as it is recorded when answered
ConnRequest(response) ==
    [method |-> IF transport.kind = "sse" THEN "SSE" ELSE "POST",
     sessionId |-> conn.existing, body |-> conn.body,
     clientName |-> "undefined", known |-> FALSE, cleaningUp |-> FALSE,
     afterShutdown |-> conn.afterShutdown, response |-> response,
     twin |-> Response(0, "none")]

\* validateAuthAndTrackMetrics returns to the connection attempt
ValidateAuthReturns(shouldContinue) ==
    /\ conn.pc = "validateAuth"
    /\ lastRequest = NoRequest
    /\ IF shouldContinue
       THEN /\ conn' = [conn EXCEPT !.pc = "serverFactory"]
            /\ lastRequest' = lastRequest
       ELSE /\ conn' = NoConn
            /\ lastRequest' = ConnRequest(Response(401, "Unauthorized"))
    /\ UNCHANGED <<transport, sessionObjects, cleanupCall, shutdownCalled>>
    /\ UNCHANGED transportOthers

\* the server factory returns to the connection attempt: the session is put
\* in the map (with its heartbeat, on the SSE transport) and the request
\* handed to its transport; a factory that throws ends in the 500 of the
\* handler
ServerFactoryReturns(ok) ==
    /\ conn.pc = "serverFactory"
    /\ lastRequest = NoRequest
    /\ conn' = NoConn
    /\ IF ok
       THEN LET sessionId == NextSessionId
            IN /\ transport' = [transport EXCEPT !.sessions = @ \cup {sessionId}]
               /\ sessionObjects' =
                     [sessionObjects EXCEPT ![sessionId] =
                         [NoSession EXCEPT !.exists = TRUE,
                                           !.heartbeatInterval = transport.kind = "sse",
                                           !.afterShutdown = conn.afterShutdown]]
               /\ lastRequest' = ConnRequest([Dispatched EXCEPT !.created = sessionId])
       ELSE /\ lastRequest' = ConnRequest(Response(500, "internalError"))
            /\ UNCHANGED <<transport, sessionObjects>>
    /\ UNCHANGED <<cleanupCall, shutdownCalled>>
    /\ UNCHANGED transportOthers

\* handleSseMessage that hands the message over without the lookup
handleSseMessage_noLookup(sessions, sessionId) ==
    IF sessionId = NoSessionId THEN Response(400, "invalidParams") ELSE Dispatched

\* handleSseMessage: the message goes to the transport of the session that
\* the map holds under the id of the query
handleSseMessage(sessions, sessionId) ==
    IF sessionId = NoSessionId THEN Response(400, "invalidParams")
    ELSE IF sessionId \notin sessions THEN Response(404, "sessionNotFound")
    ELSE Dispatched

\* POST /message on the SSE transport
HandleSseMessage(sessionId, body) ==
    /\ transport.kind = "sse"
    /\ lastRequest = NoRequest
    /\ lastRequest' = Answered("MESSAGE", sessionId, body,
                        handleSseMessage(transport.sessions, sessionId))
    /\ UNCHANGED <<transport, sessionObjects, conn, cleanupCall, shutdownCalled>>
    /\ UNCHANGED transportOthers

\* the stale check finds a session stale and removes it
StaleConnectionCheck(sessionId) ==
    /\ transport.kind \in StatefulKinds
    /\ transport.staleCheckInterval
    /\ ~transport.isShuttingDown
    /\ sessionId \in transport.sessions
    /\ sessionObjects' = cleanupSession(sessionObjects, transport.sessions, sessionId)
    /\ UNCHANGED <<transport, conn, lastRequest, cleanupCall, shutdownCalled>>
    /\ UNCHANGED transportOthers

\* the heartbeat of a session finds its response stream closed and removes
\* the session
Heartbeat(sessionId) ==
    /\ transport.kind \in StatefulKinds
    /\ sessionObjects[sessionId].heartbeatInterval
    /\ sessionObjects' = cleanupSession(sessionObjects, transport.sessions, sessionId)
    /\ UNCHANGED <<transport, conn, lastRequest, cleanupCall, shutdownCalled>>
    /\ UNCHANGED transportOthers

\* transport.onclose of a session of the streaming-HTTP transport: the
\* session is removed if the map still holds it
TransportOnClose(sessionId) ==
    /\ transport.kind = "streamableHttp"
    /\ sessionId \in transport.sessions
    /\ sessionObjects' = cleanupSession(sessionObjects, transport.sessions, sessionId)
    /\ UNCHANGED <<transport, conn, lastRequest, cleanupCall, shutdownCalled>>
    /\ UNCHANGED transportOthers

\* the close of the transport of a session being cleaned up returns
TransportCloseReturns(sessionId) ==
    /\ sessionObjects[sessionId].task = "transport.close"
    /\ sessionObjects' = [sessionObjects EXCEPT ![sessionId].transportClosed = TRUE,
                                                ![sessionId].closeCalls.server = @ + 1,
                                                ![sessionId].task = "server.close"]
    /\ UNCHANGED <<transport, conn, lastRequest, cleanupCall, shutdownCalled>>
    /\ UNCHANGED transportOthers

\* the close of its server returns: the session leaves the map
ServerCloseReturns(sessionId) ==
    /\ sessionObjects[sessionId].task = "server.close"
    /\ sessionObjects' = [sessionObjects EXCEPT ![sessionId].serverClosed = TRUE,
                                                ![sessionId].cleaned = @ + 1,
                                                ![sessionId].task = "done"]
    /\ transport' = [transport EXCEPT !.sessions = @ \ {sessionId}]
    /\ UNCHANGED <<conn, lastRequest, cleanupCall, shutdownCalled>>
    /\ UNCHANGED transportOthers

\* stopStaleConnectionCheck: the stale check and the ping keep-alive stopped
stopStaleConnectionCheck(t) ==
    [t EXCEPT !.staleCheckInterval = FALSE, !.pingInterval = FALSE]

\* cleanupAllSessions up to its await: cleanupSession begun for every
\* session in the map
cleanupAllSessions(objects, sessions) ==
    [id \in SessionIds |-> cleanupSession(objects, sessions, id)[id]]

\* no cleanup() call yet
NoCleanup == [pc |-> "idle", awaited |-> {}]

\* cleanup(): a stateful transport stops its timers and begins the cleanup of
\* all its sessions; the stateless transport clears its analytics sessions
Cleanup ==
    /\ transport.kind # "none"
    /\ cleanupCall.pc = "idle"
    /\ IF transport.kind = "stateless"
       THEN /\ transport' = [transport EXCEPT !.sessions = {}]
            /\ cleanupCall' = [pc |-> "done", awaited |-> {}]
            /\ sessionObjects' = sessionObjects
       ELSE /\ transport' = stopStaleConnectionCheck(transport)
            /\ sessionObjects' = cleanupAllSessions(sessionObjects, transport.sessions)
            /\ cleanupCall' =
                  [pc |-> "allSettled",
                   awaited |-> { id \in transport.sessions : ~sessionObjects[id].cleaningUp }]
    /\ UNCHANGED <<conn, lastRequest, shutdownCalled>>
    /\ UNCHANGED transportOthers

\* the cleanups begun by cleanup() have all settled: the map is cleared
CleanupAllSessionsSettles ==
    /\ cleanupCall.pc = "allSettled"
    /\ \A id \in cleanupCall.awaited : sessionObjects[id].task = "done"
    /\ transport' = [transport EXCEPT !.sessions = {}]
    /\ cleanupCall' = [cleanupCall EXCEPT !.pc = "done"]
    /\ UNCHANGED <<sessionObjects, conn, lastRequest, shutdownCalled>>
    /\ UNCHANGED transportOthers

\* handleJsonRpcRequest of the stateless transport, for a request that the
\* authorization gate lets through or not: the response, and the session
\* table and objects after it
handleJsonRpcRequest(analyticsMode, sessions, objects, sessionIdHeader, body, requestClientName, shouldContinue, newSessionId) ==
    LET unchanged(response) ==
            [response |-> response, sessions |-> sessions, objects |-> objects]
        sessionId == IF ~analyticsMode THEN NoSessionId
                     ELSE IF body.method = "initialize" THEN newSessionId
                     ELSE sessionIdHeader
        created == analyticsMode /\ body.method = "initialize"
        sessions1 == IF created THEN sessions \cup {sessionId} ELSE sessions
        extractedClientInfo ==
            IF body.method = "initialize" THEN requestClientName ELSE "undefined"
        objects1 ==
            IF created
            THEN [objects EXCEPT ![sessionId] =
                     [NoSession EXCEPT !.exists = TRUE, !.clientName = extractedClientInfo]]
            ELSE objects
        clientName ==
            IF extractedClientInfo # "undefined" THEN extractedClientInfo
            ELSE IF sessionId \in sessions1 THEN objects1[sessionId].clientName
            ELSE "undefined"
        useFullServer == shouldHandle(body, clientName)
        served(response) ==
            [response |-> [response EXCEPT !.created = IF created THEN sessionId ELSE NoSessionId],
             sessions |-> sessions1, objects |-> objects1]
    IN IF ~shouldContinue THEN unchanged(Response(401, "Unauthorized"))
       ELSE IF analyticsMode /\ body.method # "initialize"
               /\ sessionIdHeader # NoSessionId /\ sessionIdHeader \notin sessions
       THEN unchanged(Response(404, "sessionNotFound"))
       ELSE IF analyticsMode /\ body.method # "initialize" /\ sessionIdHeader = NoSessionId
       THEN unchanged(Response(400, "invalidRequest"))
       ELSE IF isJSONRPCNotification(body) THEN served(Response(202, "none"))
       ELSE IF useFullServer
       THEN served([Response(200, "none") EXCEPT !.handledBy = "full",
                                                 !.skipGradio = skipGradioSetup(body)])
       ELSE served([Response(200, "none") EXCEPT !.handledBy = "stub"])

\* POST /mcp on the stateless transport; the twin is the response the same
\* request gets from the transport with analytics mode off
HandleJsonRpcRequest(sessionId, body, requestClientName, shouldContinue) ==
    /\ transport.kind = "stateless"
    /\ lastRequest = NoRequest
    /\ (transport.analyticsMode /\ body.method = "initialize") => NextSessionId \in SessionIds
    /\ LET newSessionId == IF NextSessionId \in SessionIds THEN NextSessionId ELSE 1
           on == handleJsonRpcRequest(transport.analyticsMode, transport.sessions,
                                      sessionObjects, sessionId, body, requestClientName,
                                      shouldContinue, newSessionId)
           off == handleJsonRpcRequest(FALSE, {}, sessionObjects, sessionId, body,
                                       requestClientName, shouldContinue, newSessionId)
       IN /\ transport' = [transport EXCEPT !.sessions = on.sessions]
          /\ sessionObjects' = on.objects
          /\ lastRequest' = [Answered("POST", sessionId, body, on.response)
                         EXCEPT !.clientName = requestClientName, !.twin = off.response]
    /\ UNCHANGED <<conn, cleanupCall, shutdownCalled>>
    /\ UNCHANGED transportOthers

\* DELETE /mcp on the stateless transport
HandleStatelessDeleteRequest(sessionId) ==
    /\ transport.kind = "stateless"
    /\ lastRequest = NoRequest
    /\ LET response ==
              IF ~transport.analyticsMode THEN Response(405, "methodNotAllowed")
              ELSE IF sessionId = NoSessionId THEN Response(400, "invalidRequest")
              ELSE IF sessionId \in transport.sessions THEN Response(200, "none")
              ELSE Response(404, "sessionNotFound")
       IN /\ lastRequest' = [Answered("DELETE", sessionId, ToolsListRequest, response)
                         EXCEPT !.twin = Response(405, "methodNotAllowed")]
          /\ transport' = IF transport.analyticsMode
                          THEN [transport EXCEPT !.sessions = @ \ {sessionId}]
                          ELSE transport
    /\ UNCHANGED <<sessionObjects, conn, cleanupCall, shutdownCalled>>
    /\ UNCHANGED transportOthers

\* the response of the request answered last has been sent
ResponseSent ==
    /\ lastRequest # NoRequest
    /\ lastRequest' = NoRequest
    /\ UNCHANGED <<transport, sessionObjects, conn, cleanupCall, shutdownCalled>>
    /\ UNCHANGED transportOthers

TransportInit ==
    /\ transport = NoTransport
    /\ sessionObjects = [id \in SessionIds |-> NoSession]
    /\ conn = NoConn
    /\ lastRequest = NoRequest
    /\ cleanupCall = NoCleanup
    /\ shutdownCalled = FALSE

\* ------------------------------------------------------------ the auth gate
\* the outcomes of whoAmI: it resolves, or throws one of the errors the gate
\* tells apart ("notCalled": the request carries no token)
WhoAmIUnauthorized ==
    {"HubApiError401", "statusCode401", "status401", "message401", "TypeErrorTokenFormat"}
WhoAmIOtherErrors == {"networkError", "HubApiError500"}
WhoAmIOutcomes == {"ok"} \cup WhoAmIUnauthorized \cup WhoAmIOtherErrors

\* the values of the x-mcp-force-auth header ("undefined": header absent)
ForceAuthHeaders == {"undefined", "", "true"}

\* the truthiness of a header value: absent and empty are falsy
HeaderTruthy(value) == value # "undefined" /\ value # ""

\* the requests that reach the gate of the stateless transport
AuthRequests ==
    { InitializeRequest, ToolsListRequest,
      [method |-> "tools/call", name |-> "Authenticate"],
      [method |-> "tools/call", name |-> "model_search"] }

\* extractMethodForTracking: the method, with the tool name for a tools/call
extractMethodForTracking(body) ==
    IF body.method = "tools/call" THEN <<"tools/call", body.name>> ELSE <<body.method>>

\* validateAuthAndTrackMetrics without the force-auth header
validateAuthAndTrackMetrics_neverForced(hasToken, whoAmI, forceAuth) ==
    IF hasToken
    THEN IF whoAmI = "ok"
         THEN [shouldContinue |-> TRUE, statusCode |-> 0, userIdentified |-> TRUE,
               tracked |-> "authenticated"]
         ELSE IF whoAmI \in WhoAmIUnauthorized
              THEN [shouldContinue |-> FALSE, statusCode |-> 401, userIdentified |-> FALSE,
                    tracked |-> "unauthorized"]
              ELSE [shouldContinue |-> TRUE, statusCode |-> 0, userIdentified |-> FALSE,
                    tracked |-> "none"]
    ELSE [shouldContinue |-> TRUE, statusCode |-> 0, userIdentified |-> FALSE,
          tracked |-> "anonymous"]

\* validateAuthAndTrackMetrics: the result (statusCode 0: undefined) and the
\* connection metric tracked
validateAuthAndTrackMetrics(hasToken, whoAmI, forceAuth) ==
    IF hasToken
    THEN IF whoAmI = "ok"
         THEN [shouldContinue |-> TRUE, statusCode |-> 0, userIdentified |-> TRUE,
               tracked |-> "authenticated"]
         ELSE IF whoAmI \in WhoAmIUnauthorized
              THEN [shouldContinue |-> FALSE, statusCode |-> 401, userIdentified |-> FALSE,
                    tracked |-> "unauthorized"]
              ELSE [shouldContinue |-> TRUE, statusCode |-> 0, userIdentified |-> FALSE,
                    tracked |-> "none"]
    ELSE [shouldContinue |-> ~HeaderTruthy(forceAuth), statusCode |-> 0, userIdentified |-> FALSE,
          tracked |-> "anonymous"]

\* the answer of a transport to the result of the gate: the status (0: the
\* request goes on) and whether the WWW-Authenticate header is set
AuthGate(kind, body, authResult) ==
    IF \/ ~authResult.shouldContinue
       \/ kind = "stateless" /\ extractMethodForTracking(body) = <<"tools/call", "Authenticate">>
    THEN [status |-> IF authResult.statusCode # 0 THEN authResult.statusCode ELSE 401,
          wwwAuthenticate |-> kind # "sse"]
    ELSE [status |-> 0, wwwAuthenticate |-> FALSE]

\* no request at the gate
NoAuth ==
    [pc |-> "idle", kind |-> "none", body |-> InitializeRequest, hasToken |-> FALSE,
     whoAmI |-> "notCalled", forceAuth |-> "undefined",
     result |-> [shouldContinue |-> TRUE, statusCode |-> 0, userIdentified |-> FALSE,
                 tracked |-> "none"],
     answer |-> [status |-> 0, wwwAuthenticate |-> FALSE]]

\* a request reaches the gate of a transport: the stateless transport asks
\* for every JSON-RPC request, the streamable HTTP transport for an initialize
\* request without session id, the SSE transport for a new connection
ValidateAuth(kind, body, hasToken, whoAmI, forceAuth) ==
    /\ auth.pc = "idle"
    /\ kind \in StatefulKinds => body = InitializeRequest
    /\ hasToken <=> whoAmI # "notCalled"
    /\ LET result == validateAuthAndTrackMetrics(hasToken, whoAmI, forceAuth) IN
       auth' = [pc |-> "answered", kind |-> kind, body |-> body, hasToken |-> hasToken,
                whoAmI |-> whoAmI, forceAuth |-> forceAuth, result |-> result,
                answer |-> AuthGate(kind, body, result)]
    /\ UNCHANGED authOthers

\* the response is sent or the request goes on
AuthAnswered ==
    /\ auth.pc = "answered"
    /\ auth' = NoAuth
    /\ UNCHANGED authOthers

AuthInit == auth = NoAuth

\* -------------------------------------------------------- the server factory
\* the tools the factory keeps in toolInstances
ToolInstanceNames == {"model_search", "hf_doc_search", "hf_jobs"}

\* the tools the factory registers without keeping their instances
UnmanagedTools(authenticateTool) ==
    {"hf_whoami"} \cup (IF authenticateTool THEN {"Authenticate"} ELSE {})

\* the enabledToolIds of a tool selection
EnabledToolIdSets == SUBSET ToolInstanceNames

\* server.tool: every tool is registered enabled
RegisterTools(authenticateTool) ==
    [name \in ToolInstanceNames \cup UnmanagedTools(authenticateTool) |-> TRUE]

\* applyToolStates that only disables
applyToolStates_always(tools, enabledToolIds, skipGradio) ==
    [name \in DOMAIN tools |->
        IF name \in ToolInstanceNames THEN name \in enabledToolIds ELSE tools[name]]

\* applyToolStates, called by the factory unless skipGradio: the tools of
\* toolInstances are enabled or disabled as the selection says
applyToolStates(tools, enabledToolIds, skipGradio) ==
    IF skipGradio THEN tools
    ELSE [name \in DOMAIN tools |->
            IF name \in ToolInstanceNames THEN name \in enabledToolIds ELSE tools[name]]

\* no server
NoServer ==
    [pc |-> "none", skipGradio |-> FALSE, enabledToolIds |-> {}, authenticateTool |-> FALSE,
     tools |-> [name \in {} |-> TRUE], listening |-> FALSE]

\* createServerFactory: the factory returns a server with its tools
\* registered, the tool states applied unless skipGradio, and the listener for
\* toolStateChange set unless skipGradio, JSON responses or external API mode
CreateServer(enabledToolIds, skipGradio, jsonResponseEnabled, externalApiMode, authenticateTool) ==
    /\ mcpServer.pc = "none"
    /\ mcpServer' =
          [pc |-> "returned", skipGradio |-> skipGradio, enabledToolIds |-> enabledToolIds,
           authenticateTool |-> authenticateTool,
           tools |-> applyToolStates(RegisterTools(authenticateTool), enabledToolIds, skipGradio),
           listening |-> ~skipGradio /\ ~jsonResponseEnabled /\ ~externalApiMode]
    /\ UNCHANGED serverOthers

\* toolStateChangeHandler: a tool of toolInstances is switched while the
\* server lives
ToolStateChange(toolId, enabled) ==
    /\ mcpServer.pc \in {"returned", "live"}
    /\ mcpServer.listening
    /\ mcpServer' =
          [mcpServer EXCEPT !.pc = "live",
                            !.tools = IF toolId \in ToolInstanceNames
                                      THEN [@ EXCEPT ![toolId] = enabled] ELSE @]
    /\ UNCHANGED serverOthers

\* server.server.onclose: the server is closed and the listener removed
ServerClosed ==
    /\ mcpServer.pc \in {"returned", "live"}
    /\ mcpServer' = NoServer
    /\ UNCHANGED serverOthers

ServerInit == mcpServer = NoServer

\* ------------------------------------------- a request through both factories
\* the x-mcp-bouquet and x-mcp-mix headers of the requests: absent, two
\* presets, and a name that is no preset
PresetHeaders == {"", "search", "all", "bogus"}

\* a header value as the proxy factory sees it
AsProxyHeader(value) == IF value = "" THEN Undefined ELSE <<value>>

\* the user's settings at the API: none, or built-in tools with space tools
ApiUserSettings ==
    { s \in [builtIn : ApiSettings, spaces : ApiSpaceSettings] :
        (s.builtIn = NoSettings) <=> (s.spaces = UndefinedSettings) }

\* the server a request gets: the proxy factory fetches the settings unless a
\* bouquet header is there, the original factory selects the built-in tools
\* with the proxy's settings, and the proxy registers the Gradio endpoints
ServerForRequest(e, bouquet, mix, gradio, api, ok) ==
    LET fetched == ~Truthy(AsProxyHeader(bouquet))
        toolSelection == selectTools(e, bouquet, mix,
                                     IF fetched THEN api.builtIn ELSE NoSettings,
                                     api.builtIn, FALSE)
        server == createProxyServerFactory(AsProxyHeader(bouquet), gradio, UndefinedSettings,
                      FALSE, api.spaces, toolSelection.enabledToolIds, ok,
                      << <<"p", "r", "e", "d", "i", "c", "t">> >>, FALSE)
    IN [enabledToolIds |-> toolSelection.enabledToolIds,
        endpoints |-> SelectSeq(server.tools, LAMBDA tool : tool.kind = "gradio")]

\* no request
NoPreset ==
    [called |-> FALSE, bouquet |-> "", mix |-> "", gradio |-> Undefined,
     api |-> [builtIn |-> NoSettings, spaces |-> UndefinedSettings], ok |-> {},
     server |-> [enabledToolIds |-> <<>>, endpoints |-> <<>>],
     withoutBouquet |-> [enabledToolIds |-> <<>>, endpoints |-> <<>>],
     withoutMix |-> [enabledToolIds |-> <<>>, endpoints |-> <<>>]]

\* A request with its headers, the user's settings at the API and the spaces
\* that can be discovered gets its server; next to it, the servers the
\* same request gets without its bouquet header and without its mix header.
CreateServerForRequest(bouquet, mix, gradio, api, ok) ==
    /\ ~preset.called
    /\ preset' = [called |-> TRUE, bouquet |-> bouquet, mix |-> mix, gradio |-> gradio,
                  api |-> api, ok |-> ok,
                  server |-> ServerForRequest(env, bouquet, mix, gradio, api, ok),
                  withoutBouquet |-> ServerForRequest(env, "", mix, gradio, api, ok),
                  withoutMix |-> ServerForRequest(env, bouquet, "", gradio, api, ok)]
    /\ UNCHANGED presetOthers

\* the request is over
CreateServerForRequestReturns ==
    /\ preset.called
    /\ preset' = NoPreset
    /\ UNCHANGED presetOthers

PresetInit == preset = NoPreset

\* ------------------------------------------------------- temporary logging
\* the largest TEMPLOG_MAX configured and the largest templog count requested
MaxTempLog == 3
\* how many diagnostic entries are followed
MaxEntries == 4

\* activateTempLogging without the cap
activateTempLogging_uncapped(t, count) ==
    IF t.tempLogMax <= 0 THEN t
    ELSE [t EXCEPT !.tempLogCounter = count, !.tempLogOriginalCount = count]

\* activateTempLogging: the counter is set to the count asked for, at most
\* tempLogMax; nothing happens when tempLogMax is 0
activateTempLogging(t, count) ==
    IF t.tempLogMax <= 0 THEN t
    ELSE [t EXCEPT !.tempLogCounter = Min(count, t.tempLogMax),
                   !.tempLogOriginalCount = Min(count, t.tempLogMax)]

\* getTempLogStatus
getTempLogStatus(t) ==
    [enabled |-> t.tempLogMax > 0, remaining |-> t.tempLogCounter, maxAllowed |-> t.tempLogMax]

\* the stateless transport before its constructor has run
NoTempLog ==
    [pc |-> "new", tempLogMax |-> 0, tempLogCounter |-> 0, tempLogOriginalCount |-> 0,
     entries |-> 0, logNumber |-> 0, requested |-> 0, status |-> 0]

\* the constructor of the stateless transport reads TEMPLOG_MAX
StatelessHttpTransportNew(max) ==
    /\ tempLog.pc = "new"
    /\ tempLog' = [NoTempLog EXCEPT !.pc = "ready", !.tempLogMax = max]
    /\ UNCHANGED tempLogOthers

\* GET /api/transport-metrics?templog=<count>: the count is used when it
\* parses to a positive number (0 stands for a parameter that does not)
TransportMetricsRequest(requestedCount) ==
    /\ tempLog.pc = "ready"
    /\ tempLog' =
          [(IF requestedCount > 0 THEN activateTempLogging(tempLog, requestedCount)
            ELSE tempLog)
           EXCEPT !.logNumber = 0, !.requested = requestedCount, !.status = 200]
    /\ UNCHANGED tempLogOthers

\* handleJsonRpcRequest in analytics mode, a request other than initialize
\* with a session id: a known session is resumed; for an unknown one the
\* answer is 404, and a diagnostic entry is written and the counter decreased
\* while the counter is positive
ResumeSession(known) ==
    /\ tempLog.pc = "ready"
    /\ tempLog.entries < MaxEntries
    /\ tempLog' =
          IF known THEN [tempLog EXCEPT !.logNumber = 0, !.requested = 0, !.status = 200]
          ELSE IF tempLog.tempLogCounter > 0
          THEN [tempLog EXCEPT
                   !.logNumber = tempLog.tempLogOriginalCount - tempLog.tempLogCounter + 1,
                   !.entries = @ + 1,
                   !.tempLogCounter = @ - 1,
                   !.requested = 0, !.status = 404]
          ELSE [tempLog EXCEPT !.logNumber = 0, !.requested = 0, !.status = 404]
    /\ UNCHANGED tempLogOthers

TempLogInit == tempLog = NoTempLog

\* ---------------------------------------- stale sweep and ping keep-alive
\* how many minutes the clock of the stateful transport is followed
MaxMinutes == 11
\* how many ping failures of a session are followed
MaxPingFailures == 3

\* the defaults of MCP_CLIENT_CONNECTION_TIMEOUT and MCP_PING_FAILURE_THRESHOLD
DEFAULT_STALE_TIMEOUT == 600000
DEFAULT_PING_FAILURE_THRESHOLD == 1

\* a minute in milliseconds
MinuteMs == DEFAULT_STALE_TIMEOUT \div 10

\* the default README.md documents for MCP_CLIENT_CONNECTION_TIMEOUT
README_STALE_TIMEOUT == 300000

\* parseInt(process.env.X || default, 10); 0 stands for a variable not set
EnvInt(value, default) == IF value = 0 THEN default ELSE value

\* a session of the stateful transport that is not there
NoKeptSession ==
    [exists |-> FALSE, lastActivity |-> 0, pingFailures |-> 0, pingInFlight |-> FALSE,
     lastPingAttempt |-> 0, pingResult |-> "none"]

\* the stateful transport before its construction
NoKeepAlive ==
    [pc |-> "new", kind |-> "none", timeoutSet |-> FALSE,
     STALE_TIMEOUT |-> 0, PING_FAILURE_THRESHOLD |-> 0, clock |-> 0,
     session |-> NoKeptSession, evictedAfter |-> 0]

\* getConfiguration of the stateful transports
getConfiguration(t) ==
    [staleTimeout |-> t.STALE_TIMEOUT, pingFailureThreshold |-> t.PING_FAILURE_THRESHOLD]

\* isSessionDistressed
isSessionDistressed(t, session) == session.pingFailures >= t.PING_FAILURE_THRESHOLD

\* updateSessionActivity
updateSessionActivity(session, t) == [session EXCEPT !.lastActivity = t]

\* the then-callback of the ping without the reset of the failures
pingSucceeded_keepsFailures(session, t) ==
    [updateSessionActivity(session, t) EXCEPT !.pingInFlight = FALSE, !.pingResult = "ok"]

\* pingSingleSession, the then-callback and the finally-callback
pingSucceeded(session, t) ==
    [updateSessionActivity(session, t) EXCEPT
        !.pingFailures = 0, !.pingInFlight = FALSE, !.pingResult = "ok"]

\* pingSingleSession, the catch-callback and the finally-callback
pingFailed(session) ==
    [session EXCEPT !.pingFailures = @ + 1, !.pingInFlight = FALSE, !.pingResult = "failed"]

\* A stateful transport (streamable HTTP or SSE) is constructed; its
\* configuration is read from the environment.
StatefulTransportNew(kind, timeoutEnv, thresholdEnv) ==
    /\ keepAlive.pc = "new"
    /\ keepAlive' = [NoKeepAlive EXCEPT
                        !.pc = "running", !.kind = kind, !.timeoutSet = timeoutEnv # 0,
                        !.STALE_TIMEOUT = EnvInt(timeoutEnv, DEFAULT_STALE_TIMEOUT),
                        !.PING_FAILURE_THRESHOLD =
                            EnvInt(thresholdEnv, DEFAULT_PING_FAILURE_THRESHOLD)]
    /\ UNCHANGED keepAliveOthers

\* createSession: the session's metadata starts with lastActivity now
KeptSessionCreated ==
    /\ keepAlive.pc = "running"
    /\ ~keepAlive.session.exists
    /\ keepAlive.evictedAfter = 0
    /\ keepAlive' = [keepAlive EXCEPT
                        !.session = [NoKeptSession EXCEPT !.exists = TRUE,
                                                          !.lastActivity = keepAlive.clock]]
    /\ UNCHANGED keepAliveOthers

\* a request of the client on its session
KeptSessionRequest ==
    /\ keepAlive.session.exists
    /\ keepAlive' = [keepAlive EXCEPT
                        !.session = updateSessionActivity(@, keepAlive.clock)]
    /\ UNCHANGED keepAliveOthers

\* a minute passes
MinutePasses ==
    /\ keepAlive.pc = "running"
    /\ keepAlive.clock < MaxMinutes * MinuteMs
    /\ keepAlive' = [keepAlive EXCEPT !.clock = @ + MinuteMs]
    /\ UNCHANGED keepAliveOthers

\* pingSingleSession: a ping is sent unless one is in flight
PingSingleSession ==
    /\ keepAlive.session.exists
    /\ keepAlive' = IF keepAlive.session.pingInFlight THEN keepAlive
                    ELSE [keepAlive EXCEPT !.session.pingInFlight = TRUE,
                                           !.session.lastPingAttempt = keepAlive.clock,
                                           !.session.pingResult = "none"]
    /\ UNCHANGED keepAliveOthers

\* the ping is answered
PingSucceeds ==
    /\ keepAlive.session.exists
    /\ keepAlive.session.pingInFlight
    /\ keepAlive' = [keepAlive EXCEPT !.session = pingSucceeded(@, keepAlive.clock)]
    /\ UNCHANGED keepAliveOthers

\* the ping fails
PingFails ==
    /\ keepAlive.session.exists
    /\ keepAlive.session.pingInFlight
    /\ keepAlive.session.pingFailures < MaxPingFailures
    /\ keepAlive' = [keepAlive EXCEPT !.session = pingFailed(@)]
    /\ UNCHANGED keepAliveOthers

\* the callback of startStaleConnectionCheck: a session whose last activity
\* is longer ago than STALE_TIMEOUT is removed
StaleSweep ==
    /\ keepAlive.pc = "running"
    /\ keepAlive.session.exists
    /\ LET timeSinceActivity == keepAlive.clock - keepAlive.session.lastActivity
       IN keepAlive' = IF timeSinceActivity > keepAlive.STALE_TIMEOUT
                       THEN [keepAlive EXCEPT !.session = NoKeptSession,
                                              !.evictedAfter = timeSinceActivity]
                       ELSE keepAlive
    /\ UNCHANGED keepAliveOthers

KeepAliveInit == keepAlive = NoKeepAlive

\* ------------------------------------------------------ in-flight pings
\* how many pings are followed
MaxPings == 4

\* the ping keep-alive before initialize(): created counts the sessions
\* created so far, unsettled the pings of a session whose promise has not
\* settled, metrics the pings counters of the MetricsCounter
NoPinger ==
    [pc |-> "new", pingInterval |-> FALSE, isShuttingDown |-> FALSE,
     sessions |-> {}, created |-> 0, pingsInFlight |-> {},
     unsettled |-> [id \in SessionIds |-> 0],
     metrics |-> [sent |-> 0, successful |-> 0, failed |-> 0]]

\* pingSingleSession that pings whether or not a ping is in flight
pingSingleSession_noDedup(p, sessionId) ==
    IF sessionId \notin p.sessions THEN p
    ELSE [p EXCEPT !.pingsInFlight = @ \cup {sessionId},
                   !.unsettled[sessionId] = @ + 1,
                   !.metrics.sent = @ + 1]

\* pingSingleSession up to the call of ping(): nothing for a session that is
\* not in the map or has a ping in flight; otherwise the id is added to
\* pingsInFlight, the ping counted as sent and fired
pingSingleSession(p, sessionId) ==
    IF sessionId \notin p.sessions THEN p
    ELSE IF sessionId \in p.pingsInFlight THEN p
    ELSE [p EXCEPT !.pingsInFlight = @ \cup {sessionId},
                   !.unsettled[sessionId] = @ + 1,
                   !.metrics.sent = @ + 1]

\* the loop of the interval callback over the keys of the session map
RECURSIVE pingSessions(_, _)
pingSessions(p, ids) ==
    IF ids = {} THEN p
    ELSE LET sessionId == CHOOSE id \in ids : \A other \in ids : id <= other
         IN pingSessions(pingSingleSession(p, sessionId), ids \ {sessionId})

\* the callbacks of a ping with the failure left uncounted
pingSettled_failureUncounted(p, sessionId, ok) ==
    [p EXCEPT !.metrics.successful = IF ok THEN @ + 1 ELSE @,
              !.unsettled[sessionId] = @ - 1,
              !.pingsInFlight = @ \ {sessionId}]

\* the callbacks of a ping: then counts a success, catch a failure, and
\* finally takes the id out of pingsInFlight
pingSettled(p, sessionId, ok) ==
    [p EXCEPT !.metrics.successful = IF ok THEN @ + 1 ELSE @,
              !.metrics.failed = IF ok THEN @ ELSE @ + 1,
              !.unsettled[sessionId] = @ - 1,
              !.pingsInFlight = @ \ {sessionId}]

\* stopPingKeepAlive: a running timer is cleared and pingsInFlight emptied
stopPingKeepAlive(p) ==
    IF p.pingInterval THEN [p EXCEPT !.pingInterval = FALSE, !.pingsInFlight = {}]
    ELSE p

\* initialize() of a stateful transport: startPingKeepAlive sets the timer
\* unless pings are disabled
StartPingKeepAlive(PING_ENABLED) ==
    /\ pinger.pc = "new"
    /\ pinger' = [pinger EXCEPT !.pc = "running", !.pingInterval = PING_ENABLED]
    /\ UNCHANGED pingOthers

\* a session is put in the map under a fresh id
PingedSessionCreated ==
    /\ pinger.pc # "new"
    /\ pinger.created < MaxSessions
    /\ pinger' = [pinger EXCEPT !.created = @ + 1,
                                !.sessions = @ \cup {pinger.created + 1}]
    /\ UNCHANGED pingOthers

\* cleanupSession takes a session out of the map
PingedSessionRemoved(sessionId) ==
    /\ sessionId \in pinger.sessions
    /\ pinger' = [pinger EXCEPT !.sessions = @ \ {sessionId}]
    /\ UNCHANGED pingOthers

\* shutdown()
PingerShutdown ==
    /\ pinger.pc = "running"
    /\ ~pinger.isShuttingDown
    /\ pinger' = [pinger EXCEPT !.isShuttingDown = TRUE]
    /\ UNCHANGED pingOthers

\* the callback of the ping timer: every session of the map is pinged,
\* unless the transport is shutting down
PingInterval ==
    /\ pinger.pingInterval
    /\ pinger.metrics.sent + Cardinality(pinger.sessions) <= MaxPings
    /\ pinger' = IF pinger.isShuttingDown THEN pinger
                 ELSE pingSessions(pinger, pinger.sessions)
    /\ UNCHANGED pingOthers

\* the promise of a ping settles
PingSettles(sessionId, ok) ==
    /\ pinger.unsettled[sessionId] > 0
    /\ pinger' = pingSettled(pinger, sessionId, ok)
    /\ UNCHANGED pingOthers

\* cleanup(): stopStaleConnectionCheck stops the ping keep-alive
StopPingKeepAlive ==
    /\ pinger.pc = "running"
    /\ pinger' = [stopPingKeepAlive(pinger) EXCEPT !.pc = "stopped"]
    /\ UNCHANGED pingOthers

PingerInit == pinger = NoPinger

\* ------------------------------------------------------ the progress relay
\* how many progress notifications of the upstream call are followed
MaxNotifications == 3

\* extra._meta.progressToken of the caller: none, the number 0, a string
ProgressTokens == {"undefined", "0", "tok"}

\* the token under which the SDK client asks the upstream for progress (the
\* id of its own request)
UpstreamToken == "messageId"

\* the progress notifications an upstream sends; total 0 and message "" stand
\* for a field left out
UpstreamNotifications ==
    [progressToken : {UpstreamToken}, progress : 1..2, total : {0, 2},
     message : {"", "running"}]

\* no call yet
NoRelay == [phase |-> "idle", progressToken |-> "undefined", received |-> <<>>, sent |-> <<>>]

\* the test of the token that takes 0 for no token
relayInstalled_truthy(progressToken) == progressToken \notin {"undefined", "0"}

\* callGradioTool: onprogress is set if the caller gave a progress token
relayInstalled(progressToken) == progressToken # "undefined"

\* onprogress: the notification handed to extra.sendNotification
onprogress(progressToken, progress) ==
    [progressToken |-> progressToken, progress |-> progress.progress,
     total |-> progress.total, message |-> progress.message]

\* callGradioTool is connected and sends the request
RelayedCallBegins(progressToken) ==
    /\ relay.phase = "idle"
    /\ relay' = [NoRelay EXCEPT !.phase = "requesting", !.progressToken = progressToken]
    /\ UNCHANGED relayOthers

\* a progress notification of the upstream arrives while the request is in
\* flight; the SDK client calls onprogress if there is one
ProgressNotification(progress) ==
    /\ relay.phase = "requesting"
    /\ Len(relay.received) < MaxNotifications
    /\ relay' = [relay EXCEPT
                    !.received = Append(@, progress),
                    !.sent = IF relayInstalled(relay.progressToken)
                             THEN Append(@, onprogress(relay.progressToken, progress))
                             ELSE @]
    /\ UNCHANGED relayOthers

\* client.request settles
RelayedCallSettles ==
    /\ relay.phase = "requesting"
    /\ relay' = [relay EXCEPT !.phase = "settled"]
    /\ UNCHANGED relayOthers

RelayInit == relay = NoRelay

\* ------------------------------------------------------- outbound calls
\* how many steps of the clock an outbound call is followed
MaxOutboundTicks == 5

\* GRADIO_SPACE_INFO_TIMEOUT and GRADIO_SCHEMA_TIMEOUT, the defaults
SPACE_INFO_TIMEOUT == 5000
SCHEMA_TIMEOUT == 7500

\* a step of the clock
OutboundTickMs == SPACE_INFO_TIMEOUT \div 2

\* the outbound calls: fetchSpaceMetadata's fetch of the Hub, fetchSchema's
\* fetch of the space, callGradioTool's SSE session with the space
OutboundKinds == {"metadata", "schema", "toolCall"}

\* what the remote does: it answers in full, it never answers, or it sends
\* the head of its answer (the response headers, the SSE stream and the
\* initialize result) and then nothing more
RemoteBehaviours == {"answers", "silent", "stalls"}

\* the delay of the setTimeout(controller.abort) a call sets up (0: the call
\* sets up none; callGradioTool passes neither a timeout nor a signal)
timeoutOf(kind) ==
    IF kind = "metadata" THEN SPACE_INFO_TIMEOUT
    ELSE IF kind = "schema" THEN SCHEMA_TIMEOUT
    ELSE 0

\* no outbound call; phase is "idle", "opening" (awaiting fetch or connect),
\* "reading" (awaiting response.json() or client.request), "returned", "failed"
NoOutbound ==
    [phase |-> "idle", kind |-> "metadata", remote |-> "answers", timer |-> FALSE,
     elapsed |-> 0, abortedByTimer |-> FALSE]

OutboundInFlight == outbound.phase \in {"opening", "reading"}

\* the call begins: the abort timer is set and the request sent
OutboundCall(kind, remote) ==
    /\ outbound.phase = "idle"
    /\ outbound' = [NoOutbound EXCEPT !.phase = "opening", !.kind = kind,
                                      !.remote = remote,
                                      !.timer = timeoutOf(kind) > 0]
    /\ UNCHANGED outboundOthers

\* fetch resolves with the response headers, or connect with the session:
\* clearTimeout, then the status is looked at and the body awaited
OutboundOpened(ok) ==
    /\ outbound.phase = "opening"
    /\ outbound.remote # "silent"
    /\ outbound' = [outbound EXCEPT !.timer = FALSE,
                                    !.phase = IF ok THEN "reading" ELSE "failed"]
    /\ UNCHANGED outboundOthers

\* the body has arrived and response.json() resolves or rejects, or the
\* upstream answers the request
OutboundCompleted(ok) ==
    /\ outbound.phase = "reading"
    /\ outbound.remote = "answers"
    /\ outbound' = [outbound EXCEPT !.phase = IF ok THEN "returned" ELSE "failed"]
    /\ UNCHANGED outboundOthers

\* the timer of the call fires: controller.abort() rejects what is awaited,
\* and the finally block clears the timer
TimeoutAborts ==
    /\ OutboundInFlight
    /\ outbound.timer
    /\ outbound.elapsed >= timeoutOf(outbound.kind)
    /\ outbound' = [outbound EXCEPT !.phase = "failed", !.timer = FALSE,
                                    !.abortedByTimer = TRUE]
    /\ UNCHANGED outboundOthers

\* a limit of the runtime or of the SDK client ends the call (a transport
\* timeout, the default request timeout of the SDK): it may, the code does
\* not ask for it
RuntimeGivesUp ==
    /\ OutboundInFlight
    /\ outbound.elapsed > SCHEMA_TIMEOUT
    /\ outbound' = [outbound EXCEPT !.phase = "failed", !.timer = FALSE]
    /\ UNCHANGED outboundOthers

\* time passes while the call is awaited; a timer that is due fires first
OutboundTick ==
    /\ OutboundInFlight
    /\ outbound.elapsed < MaxOutboundTicks * OutboundTickMs
    /\ ~(outbound.timer /\ outbound.elapsed >= timeoutOf(outbound.kind))
    /\ outbound' = [outbound EXCEPT !.elapsed = @ + OutboundTickMs]
    /\ UNCHANGED outboundOthers

OutboundInit == outbound = NoOutbound

\* ------------------------------------------------------ the caller's token
\* the most requests to the spaces that are followed
MaxForwarded == 3

\* the caller's token: absent, the empty string, a token
CallerTokens == {"undefined", "", "hf_tok"}

\* no X-HF-Authorization header on a request
NoAuthorization == <<>>

\* the value `Bearer ${hfToken}`
Bearer(hfToken) == <<"Bearer", hfToken>>

\* a string JavaScript takes as true in a condition
TruthyToken(hfToken) == hfToken # "undefined" /\ hfToken # ""

\* fetchSchema, the headers of its request: the token for a private space
fetchSchemaHeaders(metadata, hfToken) ==
    IF metadata.private /\ TruthyToken(hfToken)
    THEN [authorization |-> Bearer(hfToken)]
    ELSE [authorization |-> NoAuthorization]

\* createGradioConnection, the options of its SSE transport: the headers of
\* the POST requests and of the SSE connection
transportOptions(sseUrl, hfToken) ==
    IF TruthyToken(hfToken)
    THEN [sseUrl |-> sseUrl,
          requestInit |-> [authorization |-> Bearer(hfToken)],
          eventSourceInit |-> [authorization |-> Bearer(hfToken)]]
    ELSE [sseUrl |-> sseUrl,
          requestInit |-> [authorization |-> NoAuthorization],
          eventSourceInit |-> [authorization |-> NoAuthorization]]

\* no connection to a space
NoConnection ==
    [sseUrl |-> <<>>, requestInit |-> [authorization |-> NoAuthorization],
     eventSourceInit |-> [authorization |-> NoAuthorization]]

\* nothing was sent to any space
NoForward == [client |-> NoConnection, sent |-> <<>>]

\* a request as the space's endpoint receives it
UpstreamRequest(space, endpoint, headers) ==
    [space |-> space, private |-> IsPrivateSpace(space), endpoint |-> endpoint,
     authorization |-> headers.authorization]

\* fetchSchema asks a space for its schema.
FetchSchemaRequest(space, hfToken) ==
    /\ Len(forward.sent) < MaxForwarded
    /\ LET metadata == [name |-> space, private |-> IsPrivateSpace(space)]
       IN forward' = [forward EXCEPT !.sent =
              Append(@, UpstreamRequest(space, "schema", fetchSchemaHeaders(metadata, hfToken)))]
    /\ UNCHANGED forwardOthers

\* The handler of a proxied tool calls callGradioTool with the token of the
\* caller: the connection to the space's SSE endpoint is made.
CallGradioTool(space, hfToken) ==
    /\ forward.client = NoConnection
    /\ Len(forward.sent) < MaxForwarded
    /\ LET client == transportOptions(space, hfToken)
       IN forward' = [client |-> client,
                      sent |-> Append(forward.sent,
                                  UpstreamRequest(space, "sse", client.eventSourceInit))]
    /\ UNCHANGED forwardOthers

\* client.request: the tools/call is posted to the space.
ClientRequest ==
    /\ forward.client # NoConnection
    /\ Len(forward.sent) < MaxForwarded
    /\ forward' = [forward EXCEPT !.sent =
           Append(@, UpstreamRequest(forward.client.sseUrl, "post", forward.client.requestInit))]
    /\ UNCHANGED forwardOthers

\* client.close, in the finally of callGradioTool
ClientClose ==
    /\ forward.client # NoConnection
    /\ forward' = [forward EXCEPT !.client = NoConnection]
    /\ UNCHANGED forwardOthers

ForwardInit == forward = NoForward

\* ------------------------------------------------------- specifications
\* The discovery subsystem, with no tool call and no selection going on.
Init ==
    /\ DiscInit
    /\ CallInit
    /\ SelInit
    /\ NamingInit
    /\ ProxyInit
    /\ PostInit
    /\ TransportInit
    /\ AuthInit
    /\ ServerInit
    /\ PresetInit
    /\ TempLogInit
    /\ KeepAliveInit
    /\ PingerInit
    /\ RelayInit
    /\ OutboundInit
    /\ ForwardInit

Next ==
    \/ \E names \in NameLists, hfToken \in Tokens, skipSchemas \in BOOLEAN :
            GetGradioSpaces(names, hfToken, skipSchemas)
    \/ \E i \in 1..Len(disc.meta) :
            \E resp \in HubMetadataResponses(disc.meta[i].ifNoneMatch) :
                MetadataResponse(i, resp)
    \/ \E j \in 1..Len(disc.schema) : \E resp \in HubSchemaResponses(disc.schema[j].name) :
            SchemaResponse(j, resp)
    \/ GetGradioSpacesReturns
    \/ ClearAllCaches
    \/ Tick

Spec == Init /\ [][Next]_vars

\* The tool handler invocations, with the discovery and the selection at rest.
NextToolCall ==
    \/ \E c \in Calls : \E sseUrl \in BOOLEAN : \E progressToken \in BOOLEAN :
            InvokeTool(c, sseUrl, progressToken)
    \/ \E c \in Calls : ConnectOk(c)
    \/ \E c \in Calls : \E streamOpened \in BOOLEAN : ConnectFail(c, streamOpened)
    \/ \E c \in Calls : UpstreamProgress(c)
    \/ \E c \in Calls : \E kind \in Outcomes : UpstreamResult(c, kind)
    \/ \E c \in Calls : ClientClosed(c)
    \/ \E c \in Calls : Cancel(c)

SpecToolCall == Init /\ [][NextToolCall]_vars

\* The tool selections, with the discovery and the tool calls at rest.
NextSelection ==
    \/ \E bouquet \in HeaderValues : \E mix \in HeaderValues :
       \E userSettings \in UserSettings \cup {NoSettings} : \E fromApi \in ApiSettings :
       \E externalApiMode \in BOOLEAN :
            SelectTools(bouquet, mix, userSettings, fromApi, externalApiMode)
    \/ SelectToolsReturns
    \/ \E value \in {"", "true", "false"} : SetEnv(value)

SpecSelection == Init /\ [][NextSelection]_vars

\* The naming of the proxied tools, with everything else at rest.
NextNaming ==
    \/ \E toolName \in ToolNames, index \in SpaceIndexes, isPrivate \in BOOLEAN,
          toolIndex \in ToolIndexes :
            CreateGradioToolName(toolName, index, isPrivate, toolIndex)
    \/ CreateGradioToolNameReturns

SpecNaming == Init /\ [][NextNaming]_vars

\* The proxy server factory, with everything else at rest.
NextProxy ==
    \/ \E bouquet \in ProxyBouquets, gradio \in GradioHeaders, skipGradio \in BOOLEAN,
          apiSettings \in ApiSpaceSettings, builtIns \in BuiltInToolLists,
          ok \in SUBSET SpaceNames, toolList \in UpstreamToolLists, gradioFiles \in BOOLEAN :
            CreateProxyServer(bouquet, gradio, skipGradio, apiSettings, builtIns,
                              ok, toolList, gradioFiles)
    \/ CreateProxyServerReturns

SpecProxy == Init /\ [][NextProxy]_vars

\* the post-processing of upstream results
NextPost ==
    \/ \E content \in Contents, stripImageContent \in BOOLEAN, clientName \in ClientNames :
          ApplyResultPostProcessing(content, stripImageContent, clientName)
    \/ ApplyResultPostProcessingReturns

SpecPost == Init /\ [][NextPost]_vars

\* the three transports
NextTransport ==
    \/ \E kind \in TransportKinds, analyticsMode \in BOOLEAN :
          TransportInitialize(kind, analyticsMode)
    \/ Shutdown
    \/ \E sessionId \in {NoSessionId} \cup SessionIds,
          body \in {InitializeRequest, ToolsListRequest} :
          \/ HandlePostRequest(sessionId, body)
          \/ HandleSseMessage(sessionId, body)
    \/ \E sessionId \in {NoSessionId} \cup SessionIds :
          \/ HandleGetRequest(sessionId)
          \/ HandleDeleteRequest(sessionId)
          \/ HandleSseConnection(sessionId)
          \/ HandleStatelessDeleteRequest(sessionId)
    \/ CloseConnectionReturns
    \/ \E shouldContinue \in BOOLEAN : ValidateAuthReturns(shouldContinue)
    \/ \E ok \in BOOLEAN : ServerFactoryReturns(ok)
    \/ \E sessionId \in SessionIds :
          \/ StaleConnectionCheck(sessionId)
          \/ Heartbeat(sessionId)
          \/ TransportOnClose(sessionId)
          \/ TransportCloseReturns(sessionId)
          \/ ServerCloseReturns(sessionId)
    \/ ResponseSent
    \/ Cleanup
    \/ CleanupAllSessionsSettles
    \/ \E sessionId \in {NoSessionId} \cup SessionIds, body \in RpcRequests,
          requestClientName \in RequestClientNames, shouldContinue \in BOOLEAN :
          HandleJsonRpcRequest(sessionId, body, requestClientName, shouldContinue)

SpecTransport == Init /\ [][NextTransport]_vars

\* the transports with the closes that cleanupSession awaits settling: the
\* close of a transport and of a server resolves or rejects, and either way
\* cleanupSession goes on
SpecTransportFair ==
    /\ Init
    /\ [][NextTransport]_vars
    /\ \A sessionId \in SessionIds :
          /\ WF_vars(TransportCloseReturns(sessionId))
          /\ WF_vars(ServerCloseReturns(sessionId))

\* the auth gate of the transports
NextAuth ==
    \/ \E kind \in TransportKinds, body \in AuthRequests, hasToken \in BOOLEAN,
          whoAmI \in WhoAmIOutcomes \cup {"notCalled"}, forceAuth \in ForceAuthHeaders :
          ValidateAuth(kind, body, hasToken, whoAmI, forceAuth)
    \/ AuthAnswered

SpecAuth == Init /\ [][NextAuth]_vars

\* the server factory
NextServer ==
    \/ \E enabledToolIds \in EnabledToolIdSets, skipGradio \in BOOLEAN,
          jsonResponseEnabled \in BOOLEAN, externalApiMode \in BOOLEAN,
          authenticateTool \in BOOLEAN :
          CreateServer(enabledToolIds, skipGradio, jsonResponseEnabled, externalApiMode,
                       authenticateTool)
    \/ \E toolId \in ToolInstanceNames \cup {"hf_whoami", "unknown_tool"}, enabled \in BOOLEAN :
          ToolStateChange(toolId, enabled)
    \/ ServerClosed

SpecServer == Init /\ [][NextServer]_vars

\* The warm-cache scenario: discoveries of the same three spaces, two of
\* them public and one private on the Hub, with requests that may fail.
ScenarioNames == <<"a/x", "b/y", "c/z">>
ScenarioPrivate == {"c/z"}

ScenarioMetadataResponses(spaceName, ifNoneMatch) ==
    { resp \in HubMetadataResponses(ifNoneMatch) :
        resp.status \in {200, 304} =>
            /\ resp.private = (spaceName \in ScenarioPrivate)
            /\ resp.sdk = "gradio" }

NextWarm ==
    \/ GetGradioSpaces(ScenarioNames, TRUE, FALSE)
    \/ \E i \in 1..Len(disc.meta) :
            \E resp \in ScenarioMetadataResponses(disc.names[i], disc.meta[i].ifNoneMatch) :
                MetadataResponse(i, resp)
    \/ \E j \in 1..Len(disc.schema) : \E resp \in HubSchemaResponses(disc.schema[j].name) :
            SchemaResponse(j, resp)
    \/ GetGradioSpacesReturns
    \/ Tick

SpecWarm == Init /\ [][NextWarm]_vars

\* The same scenario with clearAllCaches() called between the discoveries.
NextClear ==
    \/ NextWarm
    \/ ClearAllCaches

SpecClear == Init /\ [][NextClear]_vars

\* requests with preset headers, through the proxy and the original factory
NextPreset ==
    \/ \E bouquet \in PresetHeaders, mix \in PresetHeaders, gradio \in {Undefined, SpaceAX},
          api \in ApiUserSettings, ok \in {SpaceNames, {SpaceBY}} :
          CreateServerForRequest(bouquet, mix, gradio, api, ok)
    \/ CreateServerForRequestReturns

SpecPreset == Init /\ [][NextPreset]_vars

\* the temporary logging of the stateless transport
NextTempLog ==
    \/ \E max \in 0..MaxTempLog : StatelessHttpTransportNew(max)
    \/ \E requestedCount \in 0..(MaxTempLog + 1) : TransportMetricsRequest(requestedCount)
    \/ \E known \in BOOLEAN : ResumeSession(known)

SpecTempLog == Init /\ [][NextTempLog]_vars

\* the stale sweep and the pings of a stateful transport
NextKeepAlive ==
    \/ \E kind \in StatefulKinds, timeoutEnv \in {0, README_STALE_TIMEOUT},
          thresholdEnv \in {0, 2} :
          StatefulTransportNew(kind, timeoutEnv, thresholdEnv)
    \/ KeptSessionCreated
    \/ KeptSessionRequest
    \/ MinutePasses
    \/ PingSingleSession
    \/ PingSucceeds
    \/ PingFails
    \/ StaleSweep

SpecKeepAlive == Init /\ [][NextKeepAlive]_vars

\* the ping keep-alive of one stateful transport
NextPings ==
    \/ \E PING_ENABLED \in BOOLEAN : StartPingKeepAlive(PING_ENABLED)
    \/ PingedSessionCreated
    \/ \E sessionId \in SessionIds : PingedSessionRemoved(sessionId)
    \/ PingerShutdown
    \/ PingInterval
    \/ \E sessionId \in SessionIds, ok \in BOOLEAN : PingSettles(sessionId, ok)
    \/ StopPingKeepAlive

SpecPings == Init /\ [][NextPings]_vars

\* the progress relay of one upstream call
NextRelay ==
    \/ \E progressToken \in ProgressTokens : RelayedCallBegins(progressToken)
    \/ \E progress \in UpstreamNotifications : ProgressNotification(progress)
    \/ RelayedCallSettles

SpecRelay == Init /\ [][NextRelay]_vars

\* one outbound call
NextOutbound ==
    \/ \E kind \in OutboundKinds, remote \in RemoteBehaviours : OutboundCall(kind, remote)
    \/ \E ok \in BOOLEAN : OutboundOpened(ok)
    \/ \E ok \in BOOLEAN : OutboundCompleted(ok)
    \/ TimeoutAborts
    \/ RuntimeGivesUp
    \/ OutboundTick

SpecOutbound == Init /\ [][NextOutbound]_vars

\* the requests to the spaces, with the caller's token
NextForward ==
    \/ \E space \in SpaceNames, hfToken \in CallerTokens : FetchSchemaRequest(space, hfToken)
    \/ \E space \in SpaceNames, hfToken \in CallerTokens : CallGradioTool(space, hfToken)
    \/ ClientRequest
    \/ ClientClose

SpecForward == Init /\ [][NextForward]_vars

\* ------------------------------------------------- claims on the discovery
\* The step in which a discovery looks its spaces up in the metadata cache.
MetadataLookupStep == disc.phase = "idle" /\ disc'.phase # "idle" /\ Len(disc'.names) > 0

\* The step in which a discovery looks its spaces up in the schema cache.
SchemaLookupStep == Len(disc.schema) = 0 /\ Len(disc'.schema) > 0

\* C1: every entry of the metadata cache and every entry of the schema cache
\* belongs to a space that was reported public when the entry was stored; no
\* entry for a private space is ever stored.
C1_PrivateSpacesNeverCached ==
    /\ \A s \in DOMAIN spaceMetadataCache.cache : ~spaceMetadataCache.cache[s].private
    /\ \A s \in DOMAIN schemaCache.cache : ~schemaCache.cache[s].forPrivate

\* C1 witness: a private space's metadata and schema have been fetched with
\* success, and neither cache holds an entry stored for it.
C1_Witness ==
    \E j \in 1..Len(disc.schema) :
        /\ disc.schema[j].private /\ disc.schema[j].st = "ok" /\ disc.schema[j].outbound
        /\ disc.schema[j].name \notin DOMAIN spaceMetadataCache.cache
        /\ disc.schema[j].name \notin DOMAIN schemaCache.cache
        /\ DOMAIN schemaCache.cache # {}

\* C2: in every discovery, for every space the Hub reports as private, a
\* metadata request and a schema request go out, and neither its metadata nor
\* its schema is answered from cache, whatever was cached earlier.
C2_PrivateAlwaysFetchedFresh ==
    /\ \A i \in 1..Len(disc.meta) :
          (disc.meta[i].st = "ok" /\ disc.meta[i].metadata.private)
              => (disc.meta[i].outbound /\ ~disc.meta[i].cached)
    /\ \A j \in 1..Len(disc.schema) :
          disc.schema[j].private
              => (disc.schema[j].outbound /\ ~disc.schema[j].cached)

\* C3: a get of an entry set at t0 hits at every time before t0 + TTL and
\* misses from t0 + TTL on, in the metadata cache and in the schema cache, and
\* the gets leave the entries, so their fetchedAt, as they were.
C3_TtlFromFetchedAt ==
    [][ /\ MetadataLookupStep =>
            /\ spaceMetadataCache'.cache = spaceMetadataCache.cache
            /\ \A i \in 1..Len(disc'.names) :
                  disc'.meta[i].st # "pending" =>
                      ( ~disc'.meta[i].outbound
                        <=> /\ disc'.names[i] \in DOMAIN spaceMetadataCache.cache
                            /\ now < spaceMetadataCache.cache[disc'.names[i]].fetchedAt
                                        + SPACE_METADATA_TTL )
        /\ SchemaLookupStep =>
            /\ schemaCache'.cache = schemaCache.cache
            /\ \A j \in 1..Len(disc'.schema) :
                  ( disc'.schema[j].cached
                    <=> /\ disc'.schema[j].name \in DOMAIN schemaCache.cache
                        /\ now < schemaCache.cache[disc'.schema[j].name].fetchedAt
                                    + SCHEMA_TTL )
      ]_vars

\* C3 witness: a get at exactly t0 + TTL has missed (the request went out with
\* the expired entry's ETag) while the other space's entry, younger, was served.
C3_Witness ==
    \E i, k \in 1..Len(disc.meta) :
        /\ disc.meta[i].st = "inflight"
        /\ ~IsNull(disc.meta[i].stale)
        /\ disc.meta[i].stale.fetchedAt + SPACE_METADATA_TTL = now
        /\ disc.meta[k].st = "ok" /\ ~disc.meta[k].outbound
        /\ spaceMetadataCache.cache[disc.names[k]].fetchedAt + TickMs = now

\* C4: a metadata request for a space that is cached with ETag X carries
\* If-None-Match: X; when the Hub answers 304, the cache keeps its size, the
\* entry's fetchedAt strictly increases, and etagRevalidations grows by one.
C4_EtagRevalidation ==
    [][ /\ MetadataLookupStep =>
            \A i \in 1..Len(disc'.names) :
                (disc'.meta[i].outbound
                    /\ disc'.names[i] \in DOMAIN spaceMetadataCache.cache)
                => disc'.meta[i].ifNoneMatch
                        = spaceMetadataCache.cache[disc'.names[i]].etag
        /\ \A i \in 1..Len(disc.meta) :
                (disc.meta[i].st = "inflight" /\ Len(disc'.meta) = Len(disc.meta)
                    /\ disc'.meta[i].status = 304)
                => /\ disc.names[i] \in DOMAIN spaceMetadataCache.cache
                   /\ DOMAIN spaceMetadataCache'.cache = DOMAIN spaceMetadataCache.cache
                   /\ spaceMetadataCache'.cache[disc.names[i]].fetchedAt
                        > spaceMetadataCache.cache[disc.names[i]].fetchedAt
                   /\ spaceMetadataCache'.cache[disc.names[i]].etag
                        = disc.meta[i].ifNoneMatch
                   /\ spaceMetadataCache'.stats.etagRevalidations
                        = spaceMetadataCache.stats.etagRevalidations + 1
      ]_vars

\* C4 witness: the Hub has answered 304 to a request that carried the cached
\* ETag, and the entry has been stamped with the time of the answer.
C4_Witness ==
    \E i \in 1..Len(disc.meta) :
        /\ disc.meta[i].status = 304
        /\ spaceMetadataCache.stats.etagRevalidations > 0
        /\ disc.names[i] \in DOMAIN spaceMetadataCache.cache
        /\ spaceMetadataCache.cache[disc.names[i]].fetchedAt = now
        /\ now >= SPACE_METADATA_TTL

\* A space none of whose fetches failed in the finished discovery: its metadata
\* came, and its schema too where a schema was asked for.
Fetched(s) ==
    /\ \E i \in 1..Len(disc.names) : disc.names[i] = s /\ disc.meta[i].st = "ok"
    /\ disc.skipSchemas
          \/ \E j \in 1..Len(disc.schema) :
                disc.schema[j].name = s /\ disc.schema[j].st = "ok"

\* A space that is a Gradio space by its metadata.
IsGradio(s) ==
    \E i \in 1..Len(disc.names) :
        disc.names[i] = s /\ disc.meta[i].metadata.sdk = "gradio"

C6_CancelTerminatesUpstream ==
    [][ \A c \in Calls :
            (call[c].aborted /\ call[c].phase = "requesting")
                => (call'[c].phase # "requesting" /\ call'[c].session # "open") ]_vars

C8_CancelIsNotAFailure ==
    \A c \in Calls : call[c].aborted => call[c].recorded # "failure"

\* ------------------------------------------------ claims on the selection
\* the x-mcp-bouquet header of the selection names a preset
ValidBouquet == selection.called /\ selection.bouquet \in DOMAIN BOUQUETS

\* no valid bouquet, an x-mcp-mix header that names a preset, and settings
MixApplies ==
    /\ selection.called
    /\ selection.bouquet \notin DOMAIN BOUQUETS
    /\ selection.mix \in DOMAIN BOUQUETS
    /\ IsSettings(selection.userSettings) \/ IsSettings(selection.fromApi)

\* the user settings U of the selection
SelectionSettings ==
    IF IsSettings(selection.userSettings) THEN selection.userSettings ELSE selection.fromApi

\* the conditional expansion: hf_doc_fetch goes to the end of a list that has
\* hf_doc_search and not hf_doc_fetch when SEARCH_ENABLES_FETCH is 'true'
WithDocFetch(ids) ==
    IF /\ env.SEARCH_ENABLES_FETCH = "true"
       /\ \E k \in 1..Len(ids) : ids[k] = "hf_doc_search"
       /\ \A k \in 1..Len(ids) : ids[k] # "hf_doc_fetch"
    THEN ids \o <<"hf_doc_fetch">>
    ELSE ids

\* C9 as stated: with a valid bouquet B the mode is BOUQUET_OVERRIDE and the
\* enabled tools are the tools of preset B, whatever the settings and the mix.
C9_BouquetEqualsPreset ==
    ValidBouquet =>
        /\ selection.result.mode = "bouquet_override"
        /\ Range(selection.result.enabledToolIds)
               = Range(BOUQUETS[selection.bouquet].builtInTools)

\* C9 amended: with a valid bouquet B the mode is BOUQUET_OVERRIDE and the
\* enabled tools are the normalised tools of preset B, followed by hf_doc_fetch
\* when SEARCH_ENABLES_FETCH is 'true' and B has hf_doc_search without
\* hf_doc_fetch; the settings and the mix have no part in the result.
C9_BouquetEqualsExpandedPreset ==
    ValidBouquet =>
        /\ selection.result.mode = "bouquet_override"
        /\ selection.result.enabledToolIds
               = normalizeBuiltInTools(WithDocFetch(BOUQUETS[selection.bouquet].builtInTools))
        /\ selection.result.baseSettings = NoSettings
        /\ selection.result.mixedBouquet = ""

\* C9 witness: bouquet=search with SEARCH_ENABLES_FETCH on, a valid mix and
\* user settings with tools of their own; the result is the search preset and
\* hf_doc_fetch.
C9_Witness ==
    /\ ValidBouquet /\ selection.bouquet = "search"
    /\ env.SEARCH_ENABLES_FETCH = "true"
    /\ selection.mix = "hf_api"
    /\ IsSettings(selection.userSettings)
    /\ selection.userSettings.builtInTools = <<"space_search", "hf_doc_fetch">>
    /\ selection.result.enabledToolIds = <<"model_search", "hf_doc_search", "hf_doc_fetch">>

\* C10 as stated: with a valid mix M and settings U the enabled tools are U's
\* tools followed by preset M's, repeats removed, first occurrences kept.
C10_MixIsDedupedUnion ==
    MixApplies =>
        selection.result.enabledToolIds
            = Dedup(SelectionSettings.builtInTools \o BOUQUETS[selection.mix].builtInTools)

\* C10 amended: with a valid mix M and settings U the mode is MIX and the
\* enabled tools are U's tools followed by preset M's, repeats removed and first
\* occurrences kept, then hf_doc_fetch at the end when SEARCH_ENABLES_FETCH is
\* 'true' and the list has hf_doc_search without hf_doc_fetch, the whole
\* normalised.
C10_MixIsExpandedDedupedUnion ==
    MixApplies =>
        /\ selection.result.mode = "mix"
        /\ selection.result.enabledToolIds
               = normalizeBuiltInTools(WithDocFetch(
                     Dedup(SelectionSettings.builtInTools
                               \o BOUQUETS[selection.mix].builtInTools)))

\* C10 witness: mix=hf_api over settings that share a tool with the preset and
\* have hf_doc_search, with SEARCH_ENABLES_FETCH on: the user's tools come
\* first, the shared tool once, hf_doc_fetch last.
C10_Witness ==
    /\ MixApplies /\ selection.mix = "hf_api"
    /\ env.SEARCH_ENABLES_FETCH = "true"
    /\ selection.userSettings.builtInTools = <<"hf_doc_search", "model_search">>
    /\ selection.result.enabledToolIds
           = <<"hf_doc_search", "model_search", "space_search", "hf_doc_fetch">>

\* --------------------------------------------------- claims on the naming
\* C13: the outward name of a tool is at most 49 characters long, begins with
\* gr for a public space and grp for a private one, and goes on with the
\* 1-based index of the space, whatever the tool name and the tool index.
C13_OutwardNameShape ==
    naming.called =>
        LET prefix == IF naming.isPrivate THEN <<"g", "r", "p">> ELSE <<"g", "r">>
            head == prefix \o toString(naming.index + 1) \o <<"_">>
        IN /\ Len(naming.result) <= 49
           /\ Len(naming.result) >= Len(head)
           /\ SubSeq(naming.result, 1, Len(head)) = head

\* C13 witness: a private space at a two-digit position and a tool name too
\* long to keep: the name is truncated in the middle to exactly 49 characters.
C13_Witness ==
    /\ naming.called /\ naming.isPrivate /\ naming.index + 1 >= 10
    /\ naming.toolIndex = MaxToolIndex
    /\ Len(naming.toolName) > 49
    /\ Len(naming.result) = 49

\* ---------------------------------------------------- claims on the proxy
\* the spaces whose tools are among the entries
SpacesOf(entries) ==
    { entries[k].space : k \in { h \in 1..Len(entries) : entries[h].kind = "gradio" } }

\* the request carries an explicit list of spaces in its gradio header
ExplicitGradioList ==
    /\ proxy.called /\ ~proxy.skipGradio
    /\ Truthy(proxy.gradio)
    /\ parseGradioSpaceIds(proxy.gradio) # <<>>

\* the spaces of the settings in effect
SettingsSpaces ==
    IF proxy.server.settings = UndefinedSettings THEN {}
    ELSE Range(proxy.server.settings.spaceTools)

\* C11: with the gradio header none the factory returns a server that has the
\* built-in tools the original factory gave it and nothing else: no proxied
\* Gradio tool, none of the spaces of the user settings either.
C11_GradioNoneRegistersNothing ==
    (proxy.called /\ proxy.gradio = <<"n", "o", "n", "e">>) =>
        /\ proxy.server.outcome = "returned"
        /\ proxy.server.handed = <<>>
        /\ Len(proxy.server.tools) = Len(proxy.builtIns)
        /\ \A k \in 1..Len(proxy.server.tools) :
              /\ proxy.server.tools[k].kind = "builtin"
              /\ proxy.server.tools[k].name = <<proxy.builtIns[k]>>

\* C11 witness: gradio=none in a request that does not skip Gradio, settings
\* with two space tools, both spaces discoverable; the server has its two
\* built-in tools only.
C11_Witness ==
    /\ proxy.called /\ proxy.gradio = None /\ ~proxy.skipGradio
    /\ proxy.server.settings # UndefinedSettings
    /\ Len(proxy.server.settings.spaceTools) = 2
    /\ Range(proxy.server.settings.spaceTools) \subseteq proxy.ok
    /\ Len(proxy.server.tools) = 2

\* C12 as stated: with an explicit gradio list the spaces whose tools the
\* returned server has are the discovered spaces of the list and no other.
C12_ExactlyTheListedSpaces ==
    (ExplicitGradioList /\ proxy.server.outcome = "returned") =>
        SpacesOf(proxy.server.tools) = Range(parseGradioSpaceIds(proxy.gradio)) \cap proxy.ok

\* C12 amended: in a request that does not skip Gradio and has an explicit
\* gradio list, every tool handed to the server belongs to a discovered space
\* of the list or of the settings in effect; a returned server has the tools
\* of exactly those spaces; and with a bouquet no settings are in effect, so
\* the spaces are exactly the discovered ones of the list.
C12_ListedAndSettingsSpaces ==
    ExplicitGradioList =>
        LET wanted == (Range(parseGradioSpaceIds(proxy.gradio)) \cup SettingsSpaces)
                          \cap proxy.ok
        IN /\ SpacesOf(proxy.server.handed) \subseteq wanted
           /\ SpacesOf(proxy.server.tools) \subseteq wanted
           /\ proxy.server.outcome = "returned" => SpacesOf(proxy.server.tools) = wanted
           /\ Truthy(proxy.bouquet) => SettingsSpaces = {}

\* C12 witness: the list a/x,b/y with no bouquet and c/z in the settings, all
\* three discovered: the server has the tools of the three spaces.
C12_Witness ==
    /\ ExplicitGradioList /\ proxy.bouquet = Undefined
    /\ Range(parseGradioSpaceIds(proxy.gradio)) = {SpaceAX, SpaceBY}
    /\ SettingsSpaces = {SpaceCZ}
    /\ proxy.server.outcome = "returned"
    /\ SpacesOf(proxy.server.tools) = {SpaceAX, SpaceBY, SpaceCZ}

\* C12 second witness: the same list with the search bouquet: the tools of
\* a/x and b/y and of no other space.
C12_WitnessBouquet ==
    /\ ExplicitGradioList /\ proxy.bouquet = <<"search">>
    /\ proxy.ok = SpaceNames
    /\ proxy.server.outcome = "returned"
    /\ SpacesOf(proxy.server.tools) = {SpaceAX, SpaceBY}

\* C14: the tools of one discovery are handed to the server under pairwise
\* distinct outward names.
C14_OutwardNamesDistinct ==
    proxy.called =>
        \A i, j \in 1..Len(proxy.server.handed) :
            i # j => proxy.server.handed[i].name # proxy.server.handed[j].name

\* ------------------------------------------------ claims on post-processing
\* C15: with the image filter enabled the post-processed content has no block
\* of type image, and a content that had blocks and nothing but images comes
\* out as exactly the one explanatory text block.
C15_NoImageBlocks ==
    (post.called /\ post.stripImageContent) =>
        /\ \A k \in 1..Len(post.result.content) :
              post.result.content[k].type \notin {"image", "IMAGE"}
        /\ (/\ post.content # <<>>
            /\ \A k \in 1..Len(post.content) : post.content[k].type \in {"image", "IMAGE"})
              => post.result.content = <<OmittedBlock>>

\* C15 witness: a result of nothing but images went through the enabled
\* filter and came out as the one text block.
C15_Witness ==
    /\ post.called /\ post.stripImageContent
    /\ Len(post.content) = MaxContent
    /\ \A k \in 1..Len(post.content) : post.content[k].type = "image"
    /\ post.result.content = <<OmittedBlock>>

\* C15 second witness: images among other blocks: the others are kept.
C15_WitnessMixed ==
    /\ post.called /\ post.stripImageContent
    /\ post.content = <<TextBlock, ImageBlock, ResourceBlock>>
    /\ post.result.content = <<TextBlock, ResourceBlock>>

\* ------------------------------------------------ claims on the transports
\* the request answered last was an attempt to open a new connection
NewConnectionAttempt ==
    \/ lastRequest.method = "SSE"
    \/ /\ lastRequest.method = "POST"
       /\ lastRequest.sessionId = NoSessionId
       /\ isInitializeRequest(lastRequest.body)

\* the request was turned away with the shutting-down error and nothing made
RejectedAsShuttingDown ==
    /\ lastRequest.response.status = 503
    /\ lastRequest.response.error = "serverShuttingDown"
    /\ lastRequest.response.created = NoSessionId
    /\ lastRequest.response.handledBy = "none"

\* C16 as stated: on every transport a connection attempt that arrives after
\* shutdown() is rejected with the shutting-down error and creates nothing.
C16_ShutdownRejectsOnEveryTransport ==
    (NewConnectionAttempt /\ lastRequest.afterShutdown) => RejectedAsShuttingDown

\* C16 amended: on the stateful transports a connection attempt that arrives
\* after shutdown() is rejected with the shutting-down error, no attempt that
\* arrived after shutdown() is in progress and no session comes from one.
C16_ShutdownRejectsOnStatefulTransports ==
    transport.kind \in StatefulKinds =>
        /\ (NewConnectionAttempt /\ lastRequest.afterShutdown) => RejectedAsShuttingDown
        /\ conn.pc # "idle" => ~conn.afterShutdown
        /\ \A id \in SessionIds : ~sessionObjects[id].afterShutdown

\* C16 witness: a streaming-HTTP transport with a session, shut down, has
\* turned away an initialize request without session id.
C16_Witness ==
    /\ transport.kind = "streamableHttp"
    /\ transport.sessions # {}
    /\ lastRequest.method = "POST" /\ NewConnectionAttempt /\ lastRequest.afterShutdown
    /\ RejectedAsShuttingDown

\* C16 second witness: the same on the SSE transport, while an attempt that
\* arrived before shutdown() is still in progress.
C16_WitnessSse ==
    /\ transport.kind = "sse"
    /\ conn.pc = "serverFactory"
    /\ lastRequest.method = "SSE" /\ lastRequest.afterShutdown
    /\ RejectedAsShuttingDown

\* C17: the step in which cleanup() completes leaves the session map empty,
\* the transport and the server of every session that was created closed,
\* no heartbeat running and the stale check and the ping keep-alive stopped.
C17_CleanupClosesEverything ==
    [][(cleanupCall.pc = "allSettled" /\ cleanupCall'.pc = "done") =>
          /\ transport'.sessions = {}
          /\ ~transport'.staleCheckInterval /\ ~transport'.pingInterval
          /\ \A id \in SessionIds :
                sessionObjects'[id].exists =>
                    /\ sessionObjects'[id].transportClosed
                    /\ sessionObjects'[id].serverClosed
                    /\ ~sessionObjects'[id].heartbeatInterval]_vars

\* the request answered last needed a session and carried no session id
NeedsSessionAndHasNone ==
    /\ lastRequest # NoRequest
    /\ lastRequest.sessionId = NoSessionId
    /\ lastRequest.response.error \notin {"serverShuttingDown", "Unauthorized"}
    /\ \/ /\ transport.kind = "streamableHttp"
          /\ \/ lastRequest.method \in {"GET", "DELETE"}
             \/ lastRequest.method = "POST" /\ ~isInitializeRequest(lastRequest.body)
       \/ transport.kind = "sse" /\ lastRequest.method = "MESSAGE"
       \/ /\ transport.kind = "stateless" /\ transport.analyticsMode
          /\ \/ lastRequest.method = "DELETE"
             \/ lastRequest.method = "POST" /\ ~isInitializeRequest(lastRequest.body)

\* C18: a request that needs a session and carries no session id is answered
\* with the invalid-params error, on every transport.
C18_MissingSessionIdIsInvalidParams ==
    NeedsSessionAndHasNone => lastRequest.response.error = "invalidParams"

\* a POST without session id was answered on the streaming-HTTP transport
PostWithoutSessionId ==
    /\ transport.kind = "streamableHttp"
    /\ lastRequest.method = "POST"
    /\ lastRequest.sessionId = NoSessionId

\* C19 as stated: a POST without session id creates a session exactly when it
\* is an initialize request, and a request without a known session id that
\* is not such a POST is not dispatched.
C19_SessionIffInitialize ==
    /\ PostWithoutSessionId =>
          (lastRequest.response.created # NoSessionId <=> isInitializeRequest(lastRequest.body))
    /\ (/\ transport.kind = "streamableHttp" /\ lastRequest # NoRequest
        /\ ~lastRequest.known /\ ~(PostWithoutSessionId /\ isInitializeRequest(lastRequest.body)))
          => lastRequest.response.handledBy = "none"

\* C19 amended: on the streaming-HTTP transport a session is created only by
\* an initialize POST without session id; such a POST creates its session
\* unless it is turned away as shutting down (it arrived after shutdown()),
\* as unauthorized, or by a failure of the server factory; every other
\* request without a known session id is rejected without being dispatched.
C19_OnlyInitializeOpensSessions ==
    (transport.kind = "streamableHttp" /\ lastRequest # NoRequest) =>
        /\ lastRequest.response.created # NoSessionId =>
              /\ PostWithoutSessionId /\ isInitializeRequest(lastRequest.body)
              /\ lastRequest.response.error = "none"
        /\ (PostWithoutSessionId /\ isInitializeRequest(lastRequest.body)) =>
              /\ \/ lastRequest.response.created # NoSessionId
                 \/ lastRequest.response.error \in
                       {"serverShuttingDown", "Unauthorized", "internalError"}
              /\ lastRequest.response.error = "serverShuttingDown" <=> lastRequest.afterShutdown
        /\ (~lastRequest.known /\ ~(PostWithoutSessionId /\ isInitializeRequest(lastRequest.body))) =>
              /\ lastRequest.response.handledBy = "none"
              /\ lastRequest.response.created = NoSessionId
              /\ lastRequest.response.error \in
                    {"invalidRequest", "sessionNotFound", "serverShuttingDown"}

\* C19 witness: an initialize POST without session id has created the second
\* session of the transport.
C19_Witness ==
    /\ PostWithoutSessionId /\ isInitializeRequest(lastRequest.body)
    /\ lastRequest.response.created = MaxSessions
    /\ lastRequest.response.created \in transport.sessions

\* C19 second witness: a tools/list POST without session id, turned away
\* while the transport has a session.
C19_WitnessRejected ==
    /\ PostWithoutSessionId /\ ~isInitializeRequest(lastRequest.body)
    /\ transport.sessions # {}
    /\ lastRequest.response.error = "invalidRequest"

\* what the client sees of a response and which server handled the request
Outcome(response) ==
    <<response.status, response.error, response.handledBy, response.skipGradio>>

\* a request was answered by the stateless transport in analytics mode
AnalyticsRequest ==
    /\ transport.kind = "stateless" /\ transport.analyticsMode
    /\ lastRequest # NoRequest

OpenAiResourceRequest ==
    /\ lastRequest.body.method = "resources/list"
    /\ lastRequest.sessionId \in SessionIds
    /\ sessionObjects[lastRequest.sessionId].clientName = "openai-mcp"

C20_WitnessOpenAi ==
    /\ AnalyticsRequest /\ lastRequest.known /\ OpenAiResourceRequest
    /\ lastRequest.response.handledBy = "full"
    /\ lastRequest.twin.handledBy = "stub"

\* C20 third witness: tools/list without session id: 400 in analytics mode,
\* served by the full server without.
C20_WitnessRejected ==
    /\ AnalyticsRequest /\ lastRequest.method = "POST"
    /\ lastRequest.body = ToolsListRequest /\ lastRequest.sessionId = NoSessionId
    /\ lastRequest.response.status = 400
    /\ lastRequest.twin.handledBy = "full"

\* --------------------------------------------------- claims on the auth gate
\* a request that has passed through the gate
AtGate == auth.pc = "answered"
Rejected401 == auth.answer.status = 401
InvalidToken == auth.hasToken /\ auth.whoAmI \in WhoAmIUnauthorized
ForcedWithoutToken == ~auth.hasToken /\ auth.forceAuth # "undefined"
AuthenticateCall ==
    auth.kind = "stateless" /\ auth.body = [method |-> "tools/call", name |-> "Authenticate"]

\* C21 as stated: the gate answers 401 exactly when the request has no token
\* and carries the force-auth header, or the validator reports the token
\* invalid; otherwise the request goes on, authenticated exactly when the
\* token is valid.
C21_RejectsExactlyForcedOrInvalid ==
    AtGate =>
        /\ Rejected401 <=> (ForcedWithoutToken \/ InvalidToken)
        /\ ~Rejected401 => auth.answer.status = 0
        /\ auth.result.userIdentified <=> (auth.hasToken /\ auth.whoAmI = "ok")

\* C21 amended: the gate answers 401 exactly when the request has no token
\* and a non-empty force-auth header, or the validator reports the token
\* invalid, or the request is a tools/call of Authenticate on the stateless
\* transport; otherwise the request goes on, and the user is identified
\* exactly when the token is valid.
C21_RejectsForcedInvalidOrAuthenticate ==
    AtGate =>
        /\ Rejected401 <=>
              \/ ~auth.hasToken /\ HeaderTruthy(auth.forceAuth)
              \/ InvalidToken
              \/ AuthenticateCall
        /\ ~Rejected401 => auth.answer.status = 0
        /\ auth.result.userIdentified <=> (auth.hasToken /\ auth.whoAmI = "ok")
        /\ (auth.hasToken /\ auth.whoAmI \in WhoAmIOtherErrors) =>
              auth.result.shouldContinue /\ ~auth.result.userIdentified

\* a request without token is turned away for its force-auth header
C21_Witness == AtGate /\ ~auth.hasToken /\ auth.forceAuth = "true" /\ Rejected401

\* a valid token is turned away on a call of Authenticate
C21_WitnessAuthenticate ==
    AtGate /\ AuthenticateCall /\ auth.hasToken /\ auth.whoAmI = "ok" /\ Rejected401

\* a validator error other than 401 lets the request go on
C21_WitnessOtherError ==
    AtGate /\ auth.whoAmI = "networkError" /\ auth.answer.status = 0

\* --------------------------------------------- claims on the server factory
\* a server as the factory returned it
ServerReturned == mcpServer.pc = "returned"

\* C22 as stated: in every server the factory returns each registered
\* built-in tool is enabled exactly when the selection's enabledToolIds has it.
C22_EnabledIffSelected ==
    ServerReturned =>
        \A name \in DOMAIN mcpServer.tools :
            mcpServer.tools[name] <=> name \in mcpServer.enabledToolIds

\* C22 amended: in a server the factory returns for skipGradio false each
\* tool of toolInstances is enabled exactly when enabledToolIds has it; for
\* skipGradio true every tool is enabled; hf_whoami and Authenticate are
\* enabled in both.
C22_EnabledIffSelectedUnlessSkipped ==
    ServerReturned =>
        /\ \A name \in ToolInstanceNames :
              mcpServer.tools[name] <=>
                  (mcpServer.skipGradio \/ name \in mcpServer.enabledToolIds)
        /\ \A name \in DOMAIN mcpServer.tools \ ToolInstanceNames : mcpServer.tools[name]

\* a server with one tool selected and two switched off
C22_Witness ==
    /\ ServerReturned /\ ~mcpServer.skipGradio
    /\ mcpServer.enabledToolIds = {"model_search"}
    /\ mcpServer.tools["model_search"] /\ ~mcpServer.tools["hf_jobs"]

\* a server made with skipGradio has a tool enabled that is not selected
C22_WitnessSkipped ==
    /\ ServerReturned /\ mcpServer.skipGradio
    /\ mcpServer.enabledToolIds = {"model_search"}
    /\ mcpServer.tools["hf_jobs"]

\* ------------------------------------------- claims on the warm discovery
\* The lookup step of the warm discovery: the second one, started while the
\* metadata the cold one stored for the two public spaces is younger than the
\* TTL.
WarmLookupStep ==
    /\ MetadataLookupStep
    /\ nDisc = 1
    /\ \A s \in {"a/x", "b/y"} :
          /\ s \in DOMAIN spaceMetadataCache.cache
          /\ MetadataIsValid(spaceMetadataCache.cache[s], now)

\* no request goes out for the two public spaces in the lookup step
NoRequestForThePublicSpaces ==
    \A i \in 1..Len(disc'.names) :
        disc'.names[i] \in {"a/x", "b/y"} => (~disc'.meta[i].outbound /\ disc'.meta[i].cached)

\* C23 as stated: in the warm discovery no metadata request goes out for the
\* two public spaces, and the statistics then report at least two metadata
\* hits and exactly one metadata miss.
C23_WarmHitsTwoMissesOne ==
    [][ WarmLookupStep =>
            /\ NoRequestForThePublicSpaces
            /\ spaceMetadataCache'.stats.hits >= 2
            /\ spaceMetadataCache'.stats.misses = 1 ]_vars

\* C23 amended: in the warm discovery no metadata request goes out for the
\* two public spaces and one goes out for the private space; the statistics
\* then report two metadata hits and four metadata misses, one more miss than
\* the three of the cold discovery.
C23_WarmHitsTwoMissesOneMore ==
    [][ WarmLookupStep =>
            /\ NoRequestForThePublicSpaces
            /\ \A i \in 1..Len(disc'.names) :
                  disc'.names[i] = "c/z" => disc'.meta[i].outbound
            /\ spaceMetadataCache.stats.hits = 0
            /\ spaceMetadataCache.stats.misses = 3
            /\ spaceMetadataCache'.stats.hits = 2
            /\ spaceMetadataCache'.stats.misses = 4 ]_vars

\* the warm discovery has served the two public spaces from the cache and
\* asks the Hub for the private one
C23_Witness ==
    /\ nDisc = 2 /\ disc.phase = "meta" /\ disc.names = ScenarioNames
    /\ disc.meta[1].cached /\ ~disc.meta[1].outbound
    /\ disc.meta[2].cached /\ ~disc.meta[2].outbound
    /\ disc.meta[3].st = "inflight" /\ disc.meta[3].outbound
    /\ "c/z" \notin DOMAIN spaceMetadataCache.cache
    /\ getCacheStats.metadataHits = 2 /\ getCacheStats.metadataMisses = 4

\* ------------------------------------------------- claims on clearAllCaches
\* the step of clearAllCaches(): the caches change while no discovery runs a
\* step and no time passes
ClearStep ==
    /\ UNCHANGED <<now, disc, nDisc>>
    /\ <<spaceMetadataCache, schemaCache>>' # <<spaceMetadataCache, schemaCache>>

\* C24: after clearAllCaches() a get of any key misses on the metadata cache
\* and on the schema cache, and the statistics (hits, misses, ETag
\* revalidations, sizes) are zero.
C24_ClearAllResets ==
    [][ ClearStep =>
            /\ \A s \in Range(ScenarioNames) :
                  /\ IsNull(SpaceMetadataCache_get(spaceMetadataCache', s, now').value)
                  /\ ~SchemaCache_get(schemaCache', s, now').found
            /\ spaceMetadataCache'.stats = [hits |-> 0, misses |-> 0, etagRevalidations |-> 0]
            /\ schemaCache'.stats = [hits |-> 0, misses |-> 0]
            /\ DOMAIN spaceMetadataCache'.cache = {}
            /\ DOMAIN schemaCache'.cache = {} ]_vars

\* the second discovery, started after a clear: all three gets have missed
\* and are the only ones counted, though the first discovery had three of
\* its own
C24_Witness ==
    /\ nDisc = 2 /\ disc.phase = "meta" /\ disc.names = ScenarioNames
    /\ \A i \in 1..3 : disc.meta[i].outbound /\ disc.meta[i].ifNoneMatch = 0
    /\ spaceMetadataCache.stats = [hits |-> 0, misses |-> 3, etagRevalidations |-> 0]
    /\ getCacheStats.metadataCacheSize = 0

\* the schema gets of the second discovery, after a clear, have all missed
C24_WitnessSchema ==
    /\ nDisc = 2 /\ disc.phase = "schema" /\ Len(disc.schema) = 3
    /\ \A j \in 1..3 : disc.schema[j].outbound
    /\ schemaCache.stats = [hits |-> 0, misses |-> 3]
    /\ spaceMetadataCache.stats = [hits |-> 0, misses |-> 3, etagRevalidations |-> 0]
    /\ getCacheStats.schemaCacheSize = 0

\* ------------------------------------------------ claims on unknown presets
\* C25 as stated: a request whose bouquet or mix header names no preset gets
\* the built-in tools and the Gradio endpoints of the same request without
\* that header.
C25_UnknownPresetChangesNothing ==
    preset.called =>
        /\ preset.bouquet \notin DOMAIN BOUQUETS \cup {""} => preset.server = preset.withoutBouquet
        /\ preset.mix \notin DOMAIN BOUQUETS \cup {""} => preset.server = preset.withoutMix

\* ------------------------------------------- claims on the temporary logging
\* a step that writes a diagnostic entry
EntryWritten == tempLog'.entries # tempLog.entries

\* a step that answers a failed session resumption
ResumeFailed == tempLog'.status = 404 /\ tempLog' # tempLog

C26_WitnessCapped ==
    /\ tempLog.requested > tempLog.tempLogMax /\ tempLog.tempLogMax > 0
    /\ tempLog.tempLogCounter = tempLog.tempLogMax

\* a failed resumption with the counter at 0 wrote nothing
C26_WitnessSilent ==
    /\ tempLog.status = 404 /\ tempLog.logNumber = 0 /\ tempLog.tempLogCounter = 0
    /\ tempLog.tempLogOriginalCount > 0

\* -------------------------------------------- claims on the stale sweep
\* C27 as stated: with MCP_CLIENT_CONNECTION_TIMEOUT not set the stale
\* timeout is 10 minutes on the SSE transport and 5 minutes on the streaming
\* HTTP transport: a session idle for longer is removed by the sweep, and no
\* session is removed earlier.
C27_StaleTimeoutTenAndFive ==
    (keepAlive.pc = "running" /\ ~keepAlive.timeoutSet) =>
        LET minutes == IF keepAlive.kind = "sse" THEN 10 ELSE 5 IN
        /\ getConfiguration(keepAlive).staleTimeout = minutes * MinuteMs
        /\ keepAlive.evictedAfter # 0 => keepAlive.evictedAfter > minutes * MinuteMs

\* ------------------------------------------------- claims on the pings
\* the steps in which the ping in flight is answered, or fails
PingAnswered == keepAlive.session.pingInFlight /\ keepAlive'.session.pingResult = "ok"
PingFailedStep == keepAlive.session.pingInFlight /\ keepAlive'.session.pingResult = "failed"

\* the Distressed status of a session the transport holds
Distressed == keepAlive.session.exists /\ isSessionDistressed(keepAlive, keepAlive.session)

C30_WitnessAnswered ==
    /\ keepAlive.session.pingResult = "ok" /\ keepAlive.session.pingFailures = 0
    /\ keepAlive.session.lastActivity = keepAlive.clock
    /\ keepAlive.session.lastActivity > keepAlive.session.lastPingAttempt
    /\ ~Distressed

\* ------------------------------------------- claims on the skip of Gradio
\* a request of the stateless transport that reached the server factory
FactoryInvoked ==
    /\ transport.kind = "stateless"
    /\ lastRequest.method = "POST"
    /\ lastRequest.response.handledBy = "full"

\* the tools/call requests whose target is no proxied Gradio tool
CallOfLocalTool ==
    /\ lastRequest.body.method = "tools/call"
    /\ lastRequest.body.name \notin {"gr1_predict", "grp2_predict"}

\* what the proxy factory does with the flag of the request, whatever the
\* headers and the settings at the API: no settings fetched, no space looked up
NoRemoteDiscovery ==
    \A gradio \in {Undefined, SpaceAX}, apiSettings \in ApiSpaceSettings :
        LET server == createProxyServerFactory(Undefined, gradio, UndefinedSettings,
                          lastRequest.response.skipGradio, apiSettings, <<"model_search">>,
                          SpaceNames, << <<"p", "r", "e", "d", "i", "c", "t">> >>, FALSE)
        IN server.settings = UndefinedSettings /\ server.found = <<>>

\* C28 as stated: on the stateless transport the server factory is invoked
\* with skipGradio = true, and nothing is discovered, for every initialize
\* request and every tools/call whose target is not a Gradio-proxied tool.
C28_SkipGradioForLocalCalls ==
    (FactoryInvoked /\ (lastRequest.body.method = "initialize" \/ CallOfLocalTool)) =>
        /\ lastRequest.response.skipGradio
        /\ NoRemoteDiscovery

\* C28 amended: the same for every initialize request and every tools/call
\* whose target is neither a Gradio-proxied tool, nor gradio_files, nor
\* dynamic_space with the operation invoke; for these three the flag is false.
C28_SkipGradioExceptFilesAndInvoke ==
    FactoryInvoked =>
        /\ ( \/ lastRequest.body.method = "initialize"
             \/ /\ CallOfLocalTool
                /\ lastRequest.body.name # "gradio_files"
                /\ ~(lastRequest.body.name = "dynamic_space"
                     /\ operationOf(lastRequest.body) = "invoke") )
           => (lastRequest.response.skipGradio /\ NoRemoteDiscovery)
        /\ ( /\ lastRequest.body.method = "tools/call"
             /\ \/ ~CallOfLocalTool
                \/ lastRequest.body.name = "gradio_files"
                \/ operationOf(lastRequest.body) = "invoke" )
           => ~lastRequest.response.skipGradio

\* a call of a built-in tool has been served by a server made with skipGradio
C28_Witness ==
    /\ FactoryInvoked /\ lastRequest.body.name = "model_search"
    /\ lastRequest.response.skipGradio /\ NoRemoteDiscovery

\* a call of gradio_files has been served by a server made with the spaces
C28_WitnessGradioFiles ==
    /\ FactoryInvoked /\ lastRequest.body.name = "gradio_files"
    /\ ~lastRequest.response.skipGradio /\ ~NoRemoteDiscovery

\* ---------------------------------- claims on the endpoints of the settings
\* the spaces of the user's settings that can be discovered
SettingsSpacesOfUser ==
    IF preset.api.spaces = UndefinedSettings THEN {}
    ELSE Range(preset.api.spaces.spaceTools) \cap preset.ok

\* a request without gradio header of a user whose settings list a space
\* that can be discovered
NoGradioHeaderAndSettingsSpaces ==
    preset.called /\ preset.gradio = Undefined /\ SettingsSpacesOfUser # {}

\* C29 as stated: without gradio header the Gradio endpoints of the user's
\* settings are registered exactly when the bouquet header is absent or all.
C29_SettingsEndpointsIffNoBouquetOrAll ==
    NoGradioHeaderAndSettingsSpaces =>
        /\ preset.bouquet \in {"", "all"} =>
              SpacesOf(preset.server.endpoints) = SettingsSpacesOfUser
        /\ preset.bouquet \notin {"", "all"} => preset.server.endpoints = <<>>

\* ------------------------------------------- claims on the session lifecycle
\* C33: Heartbeat intervals are released on all exit paths: a session that
\* is no longer in the session table has no active heartbeat timer, under
\* any interleaving of the attachment of a stream (GET) with the cleanup of
\* the session.  (That a session has at most one timer is the clearInterval
\* at the head of startHeartbeat: the timer of a session object is one
\* field.)
C33_NoHeartbeatOutsideTheTable ==
    \A id \in SessionIds :
        sessionObjects[id].heartbeatInterval => id \in transport.sessions

\* a request to the session endpoints of a stateful transport (POST, GET and
\* DELETE /mcp, POST /message) that names a session has been answered
SessionRequestAnswered ==
    /\ transport.kind \in StatefulKinds
    /\ lastRequest.method \in {"POST", "GET", "DELETE", "MESSAGE"}
    /\ lastRequest.sessionId \in SessionIds

\* C37 (as claimed): once the cleanup of a session has begun, every request
\* that names the session is rejected as session-not-found and none is
\* handed to its transport.
C37_NoDispatchOnceCleanupBegan ==
    (SessionRequestAnswered /\ lastRequest.cleaningUp)
        => lastRequest.response.error = "sessionNotFound"

\* C37 (amended): a request is rejected as session-not-found exactly when
\* the session it names is not in the session table; a session whose cleanup
\* has begun stays in the table until both closes have settled, and until
\* then its requests are handed to its transport.
C37_NoDispatchOnceRemoved ==
    SessionRequestAnswered =>
        /\ ~lastRequest.known => lastRequest.response.error = "sessionNotFound"
        /\ lastRequest.known => lastRequest.response = Dispatched

\* a request naming a removed session was rejected
C37_Witness ==
    /\ SessionRequestAnswered
    /\ sessionObjects[lastRequest.sessionId].task = "done"
    /\ ~lastRequest.known
    /\ lastRequest.response.error = "sessionNotFound"

\* a request naming a session in cleanup was handed to its transport
C37_WitnessDuringCleanup ==
    /\ SessionRequestAnswered
    /\ lastRequest.cleaningUp
    /\ lastRequest.method \in {"POST", "MESSAGE"}
    /\ lastRequest.response = Dispatched

\* the session has left the session table and no cleanup of it is under way
Gone(id) ==
    /\ sessionObjects[id].exists
    /\ id \notin transport.sessions
    /\ sessionObjects[id].task \in {"none", "done"}

\* C36: Whatever removal triggers fire concurrently (DELETE, transport
\* onclose, stream close, heartbeat, stale sweep, transport cleanup), the
\* cleanup of a stateful session takes effect exactly once: its transport and
\* its server are each closed at most once, and the cleaned and deleted
\* counters are incremented exactly once for the session.
C36_CleanupExactlyOnce ==
    transport.kind \in StatefulKinds =>
        \A id \in SessionIds :
            /\ sessionObjects[id].closeCalls.transport <= 1
            /\ sessionObjects[id].closeCalls.server <= 1
            /\ sessionObjects[id].cleaned <= 1
            /\ Gone(id) => /\ sessionObjects[id].cleaned = 1
                           /\ sessionObjects[id].closeCalls.transport = 1
                           /\ sessionObjects[id].closeCalls.server = 1

\* a removal trigger fires for a session: the stale sweep finds it stale, its
\* heartbeat finds the stream dead, its transport closes, or a DELETE names it
RemovalTrigger(id) ==
    \/ StaleConnectionCheck(id)
    \/ Heartbeat(id)
    \/ TransportOnClose(id)
    \/ /\ lastRequest = NoRequest
       /\ lastRequest'.method = "DELETE"
       /\ lastRequest'.sessionId = id
       /\ transport.kind = "streamableHttp"

\* the session was created and is not in the session table
Removed(id) == sessionObjects[id].exists /\ id \notin transport.sessions

UnsettledSessions == { id \in SessionIds : pinger.unsettled[id] > 0 }

\* C31: In-flight pings are deduplicated per session: a session never has
\* more than one unsettled ping, a ping cycle starts no ping for a session
\* whose ping has not settled and pings every other session of the map, and
\* the settling of its ping makes a session eligible again.
C31_PingsDeduplicated ==
    /\ [](\A id \in SessionIds : pinger.unsettled[id] <= 1)
    /\ [][PingInterval =>
            \A id \in SessionIds :
                pinger'.unsettled[id] =
                    IF /\ id \in pinger.sessions
                       /\ pinger.unsettled[id] = 0
                       /\ ~pinger.isShuttingDown
                    THEN 1 ELSE pinger.unsettled[id]]_vars
    /\ [][\A id \in SessionIds :
            pinger'.unsettled[id] < pinger.unsettled[id]
                => id \notin pinger'.pingsInFlight]_vars

\* a ping cycle with one session's ping unsettled and the other's settled
C31_Witness ==
    /\ pinger.pingInterval
    /\ pinger.sessions = {1, 2}
    /\ pinger.metrics.sent = 4
    /\ pinger.metrics.successful + pinger.metrics.failed = 2
    /\ UnsettledSessions = {1, 2}

\* the sum of the unsettled pings
RECURSIVE SumUnsettled(_)
SumUnsettled(ids) ==
    IF ids = {} THEN 0
    ELSE LET id == CHOOSE x \in ids : TRUE
         IN pinger.unsettled[id] + SumUnsettled(ids \ {id})

PingCountersBalance ==
    pinger.metrics.sent =
        pinger.metrics.successful + pinger.metrics.failed + SumUnsettled(SessionIds)

\* C40 (as claimed): at every moment pings.sent = pings.successful +
\* pings.failed + the number of unsettled pings, and pingsInFlight holds
\* exactly the ids of the sessions with an unsettled ping, also after the
\* keep-alive timer is stopped and after sessions are removed.
C40_CountersAndInFlightSet ==
    /\ PingCountersBalance
    /\ pinger.pingsInFlight = UnsettledSessions

\* C40 (amended): the counters balance at every moment, and pingsInFlight
\* holds exactly the ids of the sessions with an unsettled ping until
\* stopPingKeepAlive, which empties it while the pings fired before stay
\* unsettled; from then on it is empty.
C40_CountersAndInFlightSetUntilStopped ==
    /\ PingCountersBalance
    /\ pinger.pingsInFlight =
          IF pinger.pc = "stopped" THEN {} ELSE UnsettledSessions

\* a ping unsettled and counted, of a session that has been removed
C40_Witness ==
    /\ pinger.pc = "running"
    /\ pinger.metrics.failed > 0
    /\ \E id \in UnsettledSessions : id \notin pinger.sessions

\* the timer stopped with a ping unsettled
C40_WitnessStopped ==
    /\ pinger.pc = "stopped"
    /\ UnsettledSessions # {}
    /\ pinger.pingsInFlight = {}

\* ------------------------------------------------- claims on the progress relay
\* C34: For a tool call made with a progress token, every progress
\* notification of the upstream is relayed to the caller exactly once, with
\* its progress, total and message unchanged, under the caller's progress
\* token, in the order of the upstream; none is reordered, dropped or merged.
C34_ProgressRelayedInOrder ==
    relay.progressToken # "undefined" =>
        /\ Len(relay.sent) = Len(relay.received)
        /\ \A i \in 1..Len(relay.received) :
              /\ relay.sent[i].progressToken = relay.progressToken
              /\ relay.sent[i].progress = relay.received[i].progress
              /\ relay.sent[i].total = relay.received[i].total
              /\ relay.sent[i].message = relay.received[i].message

\* three notifications relayed under the token 0, the last two differing
C34_Witness ==
    /\ relay.progressToken = "0"
    /\ Len(relay.sent) = 3
    /\ relay.received[1] = relay.received[2]
    /\ relay.received[2].progress < relay.received[3].progress
    /\ relay.sent[3].progressToken = "0"

\* ------------------------------------------------- claims on the outbound calls
\* C35: Every outbound call (metadata fetch, schema fetch, upstream tool
\* call) carries an explicit timeout: as long as the call is awaited its
\* abort timer is set, and the call is not awaited for longer than the
\* timeout, whether the remote never answers or never finishes its answer.
C35_EveryOutboundCallTimesOut ==
    OutboundInFlight =>
        /\ outbound.timer
        /\ outbound.elapsed <= timeoutOf(outbound.kind)

\* ------------------------------------------------- claims on the stable names
\* the registrations of a discovery of the same requested list in which the
\* spaces of ok answer
RegistrationsWhen(ok) ==
    registrationPlan(
        discoveredSpaces(allSpaceNames(proxy.gradio, proxy.server.settings), ok, proxy.toolList), 1)

\* C38: The outward name of a (space, tool) pair is the same in every
\* discovery of the same requested space list, whichever of the other spaces
\* fail; a name that tools/list returned denotes the same space's tool in a
\* later tools/call that discovers the list again.
C38_NamesStableAcrossDiscoveries ==
    (proxy.called /\ proxy.server.outcome = "returned") =>
        \A ok \in SUBSET SpaceNames :
            \A i \in 1..Len(proxy.server.handed), j \in 1..Len(RegistrationsWhen(ok)) :
                LET listed == proxy.server.handed[i]
                    called == RegistrationsWhen(ok)[j]
                IN /\ (listed.space = called.space /\ listed.toolIndex = called.toolIndex)
                          => listed.name = called.name
                   /\ listed.name = called.name
                          => (listed.space = called.space /\ listed.toolIndex = called.toolIndex)

\* ------------------------------------------------- claims on the caller's token
\* C39: The caller's token is sent in X-HF-Authorization to a space's
\* endpoints (the schema fetch and the streaming session of a call) only when
\* the space is private; no request to a public space carries the token.
C39_TokenOnlyToPrivateSpaces ==
    \A i \in 1..Len(forward.sent) :
        forward.sent[i].authorization # NoAuthorization => forward.sent[i].private

====
